---------------------------- MODULE Spec2Model ----------------------------
(***************************************************************************)
(* A model of evalexpr.py: the lexer (class Lexer), the recursive-descent  *)
(* parser that appends instructions to a tape (parse_program and below)    *)
(* and the stack machine that executes the tape (evaluate), driven by      *)
(* main.                                                                   *)
(*                                                                         *)
(* The source text is a sequence of one-character strings.  Python's       *)
(* 0-based indices are kept: pc and jump targets are 0-based, so the       *)
(* instruction at pc is code[pc + 1].  main is given the name of a file    *)
(* that can be read; the file's text is the input.                         *)
(***************************************************************************)
EXTENDS Integers, Sequences, FiniteSets, TLC

VARIABLES
    text,      \* the characters of the source file (main's input)
    lexer,     \* the Lexer object: its __text, __row, __col and token
    code,      \* the instruction tape
    mainpc,    \* where main is
    stack,     \* evaluate's operand stack
    env,       \* evaluate's environment
    pc,        \* evaluate's program counter
    stdout,    \* the argument lists print was called with, in order
    stderr,    \* the lines main printed to sys.stderr
    exc        \* the exception raised, if any

vars == <<text, lexer, code, mainpc, stack, env, pc, stdout, stderr, exc>>

-----------------------------------------------------------------------------
(* Bounds of the model. *)

\* Integers and floats of larger magnitude than this are not computed.
MaxInt == 8

\* The longest text drawn from all sequences over RawAlphabet.
MaxChars == 3

\* The number of calls of print a run may make.
MaxPrint == 2

\* The longest text drawn from all sequences over TokVocab, in lexemes.
MaxToks == 3

-----------------------------------------------------------------------------
(* Values.  Every value is a record of the same shape, so that any two can  *)
(* be compared: t is the Python type, n/d the number (d = 1 for int and     *)
(* bool), s the string or the built-in's name, l the elements of a list.    *)

IntV(i) == [t |-> "int", n |-> i, d |-> 1, s |-> "", l |-> <<>>]

BoolV(b) == [t |-> "bool", n |-> IF b THEN 1 ELSE 0, d |-> 1, s |-> "", l |-> <<>>]

NoneV == [t |-> "NoneType", n |-> 0, d |-> 1, s |-> "", l |-> <<>>]

StrV(str) == [t |-> "str", n |-> 0, d |-> 1, s |-> str, l |-> <<>>]

FuncV(name) == [t |-> "builtin", n |-> 0, d |-> 1, s |-> name, l |-> <<>>]

ListV(elems) == [t |-> "list", n |-> 0, d |-> 1, s |-> "", l |-> elems]

Abs(i) == IF i < 0 THEN -i ELSE i

RECURSIVE Gcd(_, _)
Gcd(a, b) == IF b = 0 THEN a ELSE Gcd(b, a % b)

\* The float num/den, den > 0, in lowest terms.
FloatV(num, den) ==
    LET g == Gcd(Abs(num), den)
    IN  [t |-> "float", n |-> num \div g, d |-> den \div g, s |-> "", l |-> <<>>]

\* The float -0.0, which equals 0.0 and is another float: s holds its sign.
NegZero == [t |-> "float", n |-> 0, d |-> 1, s |-> "-", l |-> <<>>]

\* The symbolic floats math.pi and math.e: n and d are not used.
SymV(name) == [t |-> "float", n |-> 0, d |-> 0, s |-> name, l |-> <<>>]

-----------------------------------------------------------------------------
(* Lexical analysis. *)

OPS == {"+", "-", "*", "/", "(", ")", "=", ";", ",", "<", ">"}

OPS2 == {"<=", ">=", "==", "!="}

KEYWORDS == {"NONE", "TRUE", "FALSE", "if", "then", "else", "end", "while", "do"}

\* A string of this module is a sequence of UTF-16 code units: a character
\* up to U+FFFF is a string of one unit, a character beyond U+FFFF a string of
\* two, and a string literal holds the units up to 0x00FF and those whose
\* low byte is 0x80 or more, the grave accent aside.  Among(c, rows, width)
\* says that c is one of the characters of the strings of rows, whose
\* characters have width units each.
Among(c, rows, width) ==
    /\ Len(c) = width
    /\ \E row \in rows :
           \E i \in 1 .. Len(row) \div width :
               SubSeq(row, width * (i - 1) + 1, width * i) = c

\* The characters of strings of characters of one unit
Chars(rows) == UNION {{SubSeq(row, i, i) : i \in 1 .. Len(row)} : row \in rows}

\* The characters U+0001 to U+00FF, except the grave accent (U+0060), which
\* no string literal holds
Latin1 ==
    Chars({"\t\n\f\r !\"#$%&'()*+,-./0",
           "123456789:;<=>?@ABCDEFGHIJKLMNOPQRSTUVWXYZ[\\]^_a",
           "bcdefghijklmnopqrstuvwxyz{|}~",
           " ¡¢£¤¥¦§¨©ª«¬­®¯°±²³´µ¶·¸¹º»¼½¾¿ÀÁ",
           "ÂÃÄÅÆÇÈÉÊËÌÍÎÏÐÑÒÓÔÕÖ×ØÙÚÛÜÝÞßàáâãäåæçèéêëìíîïðñ",
           "òóôõö÷øùúûüýþÿ"})

\* Characters of two units, one for each unit that begins such a character
FirstUnits ==
    {"𰂀𰒀𰢀𰲀𱂀𱒀𱢀𱲀𲂀𲒀𲢀𲲀𳂀𳒀𳢀𳲀𴂀𴒀𴢀𴲀𵂀𵒀𵢀𵲀𶂀𶒀𶢀𶲀𷂀𷒀𷢀𷲀",
     "𸂀𸒀𸢀𸲀𹂀𹒀𹢀𹲀𺂀𺒀𺢀𺲀𻂀𻒀𻢀𻲀𼂀𼒀𼢀𼲀𽂀𽒀𽢀𽲀𾂀𾒀𾢀𾲀𿂀𿒀𿢀𿲀",
     "񀂀񀒀񀢀񀲀񁂀񁒀񁢀񁲀񂂀񂒀񂢀񂲀񃂀񃒀񃢀񃲀񄂀񄒀񄢀񄲀񅂀񅒀񅢀񅲀񆂀񆒀񆢀񆲀񇂀񇒀񇢀񇲀",
     "񈂀񈒀񈢀񈲀񉂀񉒀񉢀񉲀񊂀񊒀񊢀񊲀񋂀񋒀񋢀񋲀񌂀񌒀񌢀񌲀񍂀񍒀񍢀񍲀񎂀񎒀񎢀񎲀񏂀񏒀񏢀񏲀",
     "񰂀񰒀񰢀񰲀񱂀񱒀񱢀񱲀񲂀񲒀񲢀񲲀񳂀񳒀񳢀񳲀񴂀񴒀񴢀񴲀񵂀񵒀񵢀񵲀񶂀񶒀񶢀񶲀񷂀񷒀񷢀񷲀",
     "񸂀񸒀񸢀񸲀񹂀񹒀񹢀񹲀񺂀񺒀񺢀񺲀񻂀񻒀񻢀񻲀񼂀񼒀񼢀񼲀񽂀񽒀񽢀񽲀񾂀񾒀񾢀񾲀񿂀񿒀񿢀񿲀",
     "򀂀򀒀򀢀򀲀򁂀򁒀򁢀򁲀򂂀򂒀򂢀򂲀򃂀򃒀򃢀򃲀򄂀򄒀򄢀򄲀򅂀򅒀򅢀򅲀򆂀򆒀򆢀򆲀򇂀򇒀򇢀򇲀",
     "򈂀򈒀򈢀򈲀򉂀򉒀򉢀򉲀򊂀򊒀򊢀򊲀򋂀򋒀򋢀򋲀򌂀򌒀򌢀򌲀򍂀򍒀򍢀򍲀򎂀򎒀򎢀򎲀򏂀򏒀򏢀򏲀",
     "򰂀򰒀򰢀򰲀򱂀򱒀򱢀򱲀򲂀򲒀򲢀򲲀򳂀򳒀򳢀򳲀򴂀򴒀򴢀򴲀򵂀򵒀򵢀򵲀򶂀򶒀򶢀򶲀򷂀򷒀򷢀򷲀",
     "򸂀򸒀򸢀򸲀򹂀򹒀򹢀򹲀򺂀򺒀򺢀򺲀򻂀򻒀򻢀򻲀򼂀򼒀򼢀򼲀򽂀򽒀򽢀򽲀򾂀򾒀򾢀򾲀򿂀򿒀򿢀򿲀",
     "󀂀󀒀󀢀󀲀󁂀󁒀󁢀󁲀󂂀󂒀󂢀󂲀󃂀󃒀󃢀󃲀󄂀󄒀󄢀󄲀󅂀󅒀󅢀󅲀󆂀󆒀󆢀󆲀󇂀󇒀󇢀󇲀",
     "󈂀󈒀󈢀󈲀󉂀󉒀󉢀󉲀󊂀󊒀󊢀󊲀󋂀󋒀󋢀󋲀󌂀󌒀󌢀󌲀󍂀󍒀󍢀󍲀󎂀󎒀󎢀󎲀󏂀󏒀󏢀󏲀",
     "󰂀󰒀󰢀󰲀󱂀󱒀󱢀󱲀󲂀󲒀󲢀󲲀󳂀󳒀󳢀󳲀󴂀󴒀󴢀󴲀󵂀󵒀󵢀󵲀󶂀󶒀󶢀󶲀󷂀󷒀󷢀󷲀",
     "󸂀󸒀󸢀󸲀󹂀󹒀󹢀󹲀󺂀󺒀󺢀󺲀󻂀󻒀󻢀󻲀󼂀󼒀󼢀󼲀󽂀󽒀󽢀󽲀󾂀󾒀󾢀󾲀󿂀󿒀󿢀󿲀",
     "􀂀􀒀􀢀􀲀􁂀􁒀􁢀􁲀􂂀􂒀􂢀􂲀􃂀􃒀􃢀􃲀􄂀􄒀􄢀􄲀􅂀􅒀􅢀􅲀􆂀􆒀􆢀􆲀􇂀􇒀􇢀􇲀",
     "􈂀􈒀􈢀􈲀􉂀􉒀􉢀􉲀􊂀􊒀􊢀􊲀􋂀􋒀􋢀􋲀􌂀􌒀􌢀􌲀􍂀􍒀􍢀􍲀􎂀􎒀􎢀􎲀􏂀􏒀􏢀􏲀"}

\* The characters of a string
Spell(lexeme) ==
    LET unit(i) == SubSeq(lexeme, i, i)
        IsFirst(u) ==
            /\ u \notin Latin1
            /\ \E row \in FirstUnits :
                   \E j \in 1 .. Len(row) \div 2 :
                       SubSeq(row, 2 * j - 1, 2 * j - 1) = u
        chars == [i \in 1 .. Len(lexeme) |->
                     IF i > 1 /\ IsFirst(unit(i - 1)) THEN ""
                     ELSE IF IsFirst(unit(i)) THEN SubSeq(lexeme, i, i + 1)
                     ELSE unit(i)]
        IsChar(c) == c # ""
    IN  SelectSeq(chars, IsChar)

\* str.isspace, str.isalpha, str.isdigit, str.isalnum and str.isdecimal, as
\* Python's Unicode database (version 14.0.0) classifies the characters that a
\* string of this module holds; each is False of the empty string.  The
\* white space is \t, \n, \x0b, \f, \r, \x1c to \x1f, the space, \x85,
\* \xa0 and U+1680.
isspace(c) ==
    c \in
    {"\t", "\n", "", "\f", "\r", "", "", "", "", " ", "", " ", " "}

\* The letters (the characters of the categories Lu, Ll, Lt, Lm and Lo) up
\* to U+00FF
Latin1Letters ==
    Chars({"ABCDEFGHIJKLMNOPQRSTUVWXYZabcdefghijklmnopqrstuv",
           "wxyzªµºÀÁÂÃÄÅÆÇÈÉÊËÌÍÎÏÐÑÒÓÔÕÖØÙÚÛÜÝÞßàáâãäåæçèé",
           "êëìíîïðñòóôõöøùúûüýþÿ"})

\* The letters of one unit beyond U+00FF
Letters ==
    {"ƀƁƂƃƄƅƆƇƈƉƊƋƌƍƎƏƐƑƒƓƔƕƖƗƘƙƚƛƜƝƞƟƠơƢƣƤƥƦƧƨƩƪƫƬƭƮƯ",
     "ưƱƲƳƴƵƶƷƸƹƺƻƼƽƾƿǀǁǂǃǄǅǆǇǈǉǊǋǌǍǎǏǐǑǒǓǔǕǖǗǘǙǚǛǜǝǞǟ",
     "ǠǡǢǣǤǥǦǧǨǩǪǫǬǭǮǯǰǱǲǳǴǵǶǷǸǹǺǻǼǽǾǿʀʁʂʃʄʅʆʇʈʉʊʋʌʍʎʏ",
     "ʐʑʒʓʔʕʖʗʘʙʚʛʜʝʞʟʠʡʢʣʤʥʦʧʨʩʪʫʬʭʮʯʰʱʲʳʴʵʶʷʸʹʺʻʼʽʾʿ",
     "ˀˁˆˇˈˉˊˋˌˍˎˏːˑˠˡˢˣˤˬˮΆΈΉΊΌΎΏΐΑΒΓΔΕΖΗΘΙΚΛΜΝΞΟΠΡΣΤ",
     "ΥΦΧΨΩΪΫάέήίΰαβγδεζηθικλμνξοπρςστυφχψωϊϋόύώϏϐϑϒϓϔ",
     "ϕϖϗϘϙϚϛϜϝϞϟϠϡϢϣϤϥϦϧϨϩϪϫϬϭϮϯϰϱϲϳϴϵϷϸϹϺϻϼϽϾϿҀҁҊҋҌҍ",
     "ҎҏҐґҒғҔҕҖҗҘҙҚқҜҝҞҟҠҡҢңҤҥҦҧҨҩҪҫҬҭҮүҰұҲҳҴҵҶҷҸҹҺһҼҽ",
     "ҾҿӀӁӂӃӄӅӆӇӈӉӊӋӌӍӎӏӐӑӒӓӔӕӖӗӘәӚӛӜӝӞӟӠӡӢӣӤӥӦӧӨөӪӫӬӭ",
     "ӮӯӰӱӲӳӴӵӶӷӸӹӺӻӼӽӾӿրցւփքօֆևֈאבגדהוזחטיךכלםמןנסעףפ",
     "ץצקרשתׯװױײڀځڂڃڄڅچڇڈډڊڋڌڍڎڏڐڑڒړڔڕږڗژڙښڛڜڝڞڟڠڡڢڣڤڥ",
     "ڦڧڨکڪګڬڭڮگڰڱڲڳڴڵڶڷڸڹںڻڼڽھڿۀہۂۃۄۅۆۇۈۉۊۋیۍێۏېۑےۓەۥ",
     "ۦۮۯۺۻۼۿހށނރބޅކއވމފދތލގޏސޑޒޓޔޕޖޗޘޙޚޛޜޝޞޟޠޡޢޣޤޥޱߊߋ",
     "ߌߍߎߏߐߑߒߓߔߕߖߗߘߙߚߛߜߝߞߟߠߡߢߣߤߥߦߧߨߩߪߴߵߺࢀࢁࢂࢃࢄࢅࢆࢇࢉࢊࢋࢌࢍࢎ",
     "ࢠࢡࢢࢣࢤࢥࢦࢧࢨࢩࢪࢫࢬࢭࢮࢯࢰࢱࢲࢳࢴࢵࢶࢷࢸࢹࢺࢻࢼࢽࢾࢿࣀࣁࣂࣃࣄࣅࣆࣇࣈࣉঀঅআইঈউ",
     "ঊঋঌএঐওঔকখগঘঙচছজঝঞটঠডঢণতথদধনপফবভমযরলশষসহঽৎড়ঢ়য়ৠৡৰৱ",
     "ৼઅઆઇઈઉઊઋઌઍએઐઑઓઔકખગઘઙચછજઝઞટઠડઢણતથદધનપફબભમયરલળવશષસ",
     "હઽૐૠૡૹஃஅஆஇஈஉஊஎஏஐஒஓஔகஙசஜஞடணதநனபமயரறலளழவஶஷஸஹௐಀಅಆಇಈ",
     "ಉಊಋಌಎಏಐಒಓಔಕಖಗಘಙಚಛಜಝಞಟಠಡಢಣತಥದಧನಪಫಬಭಮಯರಱಲಳವಶಷಸಹಽೝೞ",
     "ೠೡೱೲඅආඇඈඉඊඋඌඍඎඏඐඑඒඓඔඕඖකඛගඝඞඟචඡජඣඤඥඦටඨඩඪණඬතථදධනඳප",
     "ඵබභමඹයරලවශෂසහළෆກຂຄຆງຈຉຊຌຍຎຏຐຑຒຓດຕຖທຘນບປຜຝພຟຠມຢຣລ",
     "ວຨຩສຫຬອຮຯະາຳຽເແໂໃໄໆໜໝໞໟྈྉྊྋྌႀႁႎႠႡႢႣႤႥႦႧႨႩႪႫႬႭႮႯႰ",
     "ႱႲႳႴႵႶႷႸႹႺႻႼႽႾႿჀჁჂჃჄჅჇჍაბგდევზთიკლმნოპჟრსტუფქღყშ",
     "ჩცძწჭხჯჰჱჲჳჴჵჶჷჸჹჺჼჽჾჿᆀᆁᆂᆃᆄᆅᆆᆇᆈᆉᆊᆋᆌᆍᆎᆏᆐᆑᆒᆓᆔᆕᆖᆗᆘᆙ",
     "ᆚᆛᆜᆝᆞᆟᆠᆡᆢᆣᆤᆥᆦᆧᆨᆩᆪᆫᆬᆭᆮᆯᆰᆱᆲᆳᆴᆵᆶᆷᆸᆹᆺᆻᆼᆽᆾᆿᇀᇁᇂᇃᇄᇅᇆᇇᇈᇉ",
     "ᇊᇋᇌᇍᇎᇏᇐᇑᇒᇓᇔᇕᇖᇗᇘᇙᇚᇛᇜᇝᇞᇟᇠᇡᇢᇣᇤᇥᇦᇧᇨᇩᇪᇫᇬᇭᇮᇯᇰᇱᇲᇳᇴᇵᇶᇷᇸᇹ",
     "ᇺᇻᇼᇽᇾᇿኀኁኂኃኄኅኆኇኈኊኋኌኍነኑኒናኔንኖኗኘኙኚኛኜኝኞኟአኡኢኣኤእኦኧከኩኪካኬ",
     "ክኮኯኰኲኳኴኵኸኹኺኻኼኽኾዀዂዃዄዅወዉዊዋዌውዎዏዐዑዒዓዔዕዖዘዙዚዛዜዝዞዟዠዡዢዣዤ",
     "ዥዦዧየዩዪያዬይዮዯደዱዲዳዴድዶዷዸዹዺዻዼዽዾዿᎀᎁᎂᎃᎄᎅᎆᎇᎈᎉᎊᎋᎌᎍᎎᎏᎠᎡᎢᎣᎤ",
     "ᎥᎦᎧᎨᎩᎪᎫᎬᎭᎮᎯᎰᎱᎲᎳᎴᎵᎶᎷᎸᎹᎺᎻᎼᎽᎾᎿᏀᏁᏂᏃᏄᏅᏆᏇᏈᏉᏊᏋᏌᏍᏎᏏᏐᏑᏒᏓᏔ",
     "ᏕᏖᏗᏘᏙᏚᏛᏜᏝᏞᏟᏠᏡᏢᏣᏤᏥᏦᏧᏨᏩᏪᏫᏬᏭᏮᏯᏰᏱᏲᏳᏴᏵᏸᏹᏺᏻᏼᏽᒀᒁᒂᒃᒄᒅᒆᒇᒈ",
     "ᒉᒊᒋᒌᒍᒎᒏᒐᒑᒒᒓᒔᒕᒖᒗᒘᒙᒚᒛᒜᒝᒞᒟᒠᒡᒢᒣᒤᒥᒦᒧᒨᒩᒪᒫᒬᒭᒮᒯᒰᒱᒲᒳᒴᒵᒶᒷᒸ",
     "ᒹᒺᒻᒼᒽᒾᒿᓀᓁᓂᓃᓄᓅᓆᓇᓈᓉᓊᓋᓌᓍᓎᓏᓐᓑᓒᓓᓔᓕᓖᓗᓘᓙᓚᓛᓜᓝᓞᓟᓠᓡᓢᓣᓤᓥᓦᓧᓨ",
     "ᓩᓪᓫᓬᓭᓮᓯᓰᓱᓲᓳᓴᓵᓶᓷᓸᓹᓺᓻᓼᓽᓾᓿᖀᖁᖂᖃᖄᖅᖆᖇᖈᖉᖊᖋᖌᖍᖎᖏᖐᖑᖒᖓᖔᖕᖖᖗᖘ",
     "ᖙᖚᖛᖜᖝᖞᖟᖠᖡᖢᖣᖤᖥᖦᖧᖨᖩᖪᖫᖬᖭᖮᖯᖰᖱᖲᖳᖴᖵᖶᖷᖸᖹᖺᖻᖼᖽᖾᖿᗀᗁᗂᗃᗄᗅᗆᗇᗈ",
     "ᗉᗊᗋᗌᗍᗎᗏᗐᗑᗒᗓᗔᗕᗖᗗᗘᗙᗚᗛᗜᗝᗞᗟᗠᗡᗢᗣᗤᗥᗦᗧᗨᗩᗪᗫᗬᗭᗮᗯᗰᗱᗲᗳᗴᗵᗶᗷᗸ",
     "ᗹᗺᗻᗼᗽᗾᗿᚁᚂᚃᚄᚅᚆᚇᚈᚉᚊᚋᚌᚍᚎᚏᚐᚑᚒᚓᚔᚕᚖᚗᚘᚙᚚᚠᚡᚢᚣᚤᚥᚦᚧᚨᚩᚪᚫᚬᚭᚮ",
     "ᚯᚰᚱᚲᚳᚴᚵᚶᚷᚸᚹᚺᚻᚼᚽᚾᚿᛀᛁᛂᛃᛄᛅᛆᛇᛈᛉᛊᛋᛌᛍᛎᛏᛐᛑᛒᛓᛔᛕᛖᛗᛘᛙᛚᛛᛜᛝᛞ",
     "ᛟᛠᛡᛢᛣᛤᛥᛦᛧᛨᛩᛪᛱᛲᛳᛴᛵᛶᛷᛸកខគឃងចឆជឈញដឋឌឍណតថទធនបផពភមយរល",
     "វឝឞសហឡអឣឤឥឦឧឨឩឪឫឬឭឮឯឰឱឲឳៗៜᢀᢁᢂᢃᢄᢇᢈᢉᢊᢋᢌᢍᢎᢏᢐᢑᢒᢓᢔᢕᢖᢗ",
     "ᢘᢙᢚᢛᢜᢝᢞᢟᢠᢡᢢᢣᢤᢥᢦᢧᢨᢪᢰᢱᢲᢳᢴᢵᢶᢷᢸᢹᢺᢻᢼᢽᢾᢿᣀᣁᣂᣃᣄᣅᣆᣇᣈᣉᣊᣋᣌᣍ",
     "ᣎᣏᣐᣑᣒᣓᣔᣕᣖᣗᣘᣙᣚᣛᣜᣝᣞᣟᣠᣡᣢᣣᣤᣥᣦᣧᣨᣩᣪᣫᣬᣭᣮᣯᣰᣱᣲᣳᣴᣵᦀᦁᦂᦃᦄᦅᦆᦇ",
     "ᦈᦉᦊᦋᦌᦍᦎᦏᦐᦑᦒᦓᦔᦕᦖᦗᦘᦙᦚᦛᦜᦝᦞᦟᦠᦡᦢᦣᦤᦥᦦᦧᦨᦩᦪᦫᦰᦱᦲᦳᦴᦵᦶᦷᦸᦹᦺᦻ",
     "ᦼᦽᦾᦿᧀᧁᧂᧃᧄᧅᧆᧇᧈᧉᪧᮃᮄᮅᮆᮇᮈᮉᮊᮋᮌᮍᮎᮏᮐᮑᮒᮓᮔᮕᮖᮗᮘᮙᮚᮛᮜᮝᮞᮟᮠᮮᮯᮺ",
     "ᮻᮼᮽᮾᮿᯀᯁᯂᯃᯄᯅᯆᯇᯈᯉᯊᯋᯌᯍᯎᯏᯐᯑᯒᯓᯔᯕᯖᯗᯘᯙᯚᯛᯜᯝᯞᯟᯠᯡᯢᯣᯤᯥᲀᲁᲂᲃᲄ",
     "ᲅᲆᲇᲈᲐᲑᲒᲓᲔᲕᲖᲗᲘᲙᲚᲛᲜᲝᲞᲟᲠᲡᲢᲣᲤᲥᲦᲧᲨᲩᲪᲫᲬᲭᲮᲯᲰᲱᲲᲳᲴᲵᲶᲷᲸᲹᲺᲽ",
     "ᲾᲿᳩᳪᳫᳬᳮᳯᳰᳱᳲᳳᳵᳶᳺᶀᶁᶂᶃᶄᶅᶆᶇᶈᶉᶊᶋᶌᶍᶎᶏᶐᶑᶒᶓᶔᶕᶖᶗᶘᶙᶚᶛᶜᶝᶞᶟᶠ",
     "ᶡᶢᶣᶤᶥᶦᶧᶨᶩᶪᶫᶬᶭᶮᶯᶰᶱᶲᶳᶴᶵᶶᶷᶸᶹᶺᶻᶼᶽᶾᶿẀẁẂẃẄẅẆẇẈẉẊẋẌẍẎẏẐ",
     "ẑẒẓẔẕẖẗẘẙẚẛẜẝẞẟẠạẢảẤấẦầẨẩẪẫẬậẮắẰằẲẳẴẵẶặẸẹẺẻẼẽẾếỀ",
     "ềỂểỄễỆệỈỉỊịỌọỎỏỐốỒồỔổỖỗỘộỚớỜờỞởỠỡỢợỤụỦủỨứỪừỬửỮữỰ",
     "ựỲỳỴỵỶỷỸỹỺỻỼỽỾỿᾀᾁᾂᾃᾄᾅᾆᾇᾈᾉᾊᾋᾌᾍᾎᾏᾐᾑᾒᾓᾔᾕᾖᾗᾘᾙᾚᾛᾜᾝᾞᾟᾠ",
     "ᾡᾢᾣᾤᾥᾦᾧᾨᾩᾪᾫᾬᾭᾮᾯᾰᾱᾲᾳᾴᾶᾷᾸᾹᾺΆᾼιῂῃῄῆῇῈΈῊΉῌῐῑῒΐῖῗῘῙῚΊ",
     "ῠῡῢΰῤῥῦῧῨῩῪΎῬῲῳῴῶῷῸΌῺΏῼₐₑₒₓₔₕₖₗₘₙₚₛₜↃↄⲀⲁⲂⲃⲄⲅⲆⲇⲈⲉ",
     "ⲊⲋⲌⲍⲎⲏⲐⲑⲒⲓⲔⲕⲖⲗⲘⲙⲚⲛⲜⲝⲞⲟⲠⲡⲢⲣⲤⲥⲦⲧⲨⲩⲪⲫⲬⲭⲮⲯⲰⲱⲲⲳⲴⲵⲶⲷⲸⲹ",
     "ⲺⲻⲼⲽⲾⲿⳀⳁⳂⳃⳄⳅⳆⳇⳈⳉⳊⳋⳌⳍⳎⳏⳐⳑⳒⳓⳔⳕⳖⳗⳘⳙⳚⳛⳜⳝⳞⳟⳠⳡⳢⳣⳤⳫⳬⳭⳮⳲ",
     "ⳳⶀⶁⶂⶃⶄⶅⶆⶇⶈⶉⶊⶋⶌⶍⶎⶏⶐⶑⶒⶓⶔⶕⶖⶠⶡⶢⶣⶤⶥⶦⶨⶩⶪⶫⶬⶭⶮⶰⶱⶲⶳⶴⶵⶶⶸⶹⶺ",
     "ⶻⶼⶽⶾⷀⷁⷂⷃⷄⷅⷆⷈⷉⷊⷋⷌⷍⷎⷐⷑⷒⷓⷔⷕⷖⷘⷙⷚⷛⷜⷝⷞむめもゃやゅゆょよらりるれろゎわ",
     "ゐゑをんゔゕゖゝゞゟァアィイゥウェエォオカガキギクグケゲコゴサザシジスズセゼソゾタダチヂッツヅテ",
     "デトドナニヌネノハバパヒビピフブプヘベペホボポマミムメモャヤュユョヨラリルレロヮワヰヱヲンヴヵヶ",
     "ヷヸヹヺーヽヾヿㆀㆁㆂㆃㆄㆅㆆㆇㆈㆉㆊㆋㆌㆍㆎㆠㆡㆢㆣㆤㆥㆦㆧㆨㆩㆪㆫㆬㆭㆮㆯㆰㆱㆲㆳㆴㆵㆶㆷㆸ",
     "ㆹㆺㆻㆼㆽㆾㆿㇰㇱㇲㇳㇴㇵㇶㇷㇸㇹㇺㇻㇼㇽㇾㇿ㒀㒁㒂㒃㒄㒅㒆㒇㒈㒉㒊㒋㒌㒍㒎㒏㒐㒑㒒㒓㒔㒕㒖㒗㒘",
     "㒙㒚㒛㒜㒝㒞㒟㒠㒡㒢㒣㒤㒥㒦㒧㒨㒩㒪㒫㒬㒭㒮㒯㒰㒱㒲㒳㒴㒵㒶㒷㒸㒹㒺㒻㒼㒽㒾㒿㓀㓁㓂㓃㓄㓅㓆㓇㓈",
     "㓉㓊㓋㓌㓍㓎㓏㓐㓑㓒㓓㓔㓕㓖㓗㓘㓙㓚㓛㓜㓝㓞㓟㓠㓡㓢㓣㓤㓥㓦㓧㓨㓩㓪㓫㓬㓭㓮㓯㓰㓱㓲㓳㓴㓵㓶㓷㓸",
     "㓹㓺㓻㓼㓽㓾㓿㖀㖁㖂㖃㖄㖅㖆㖇㖈㖉㖊㖋㖌㖍㖎㖏㖐㖑㖒㖓㖔㖕㖖㖗㖘㖙㖚㖛㖜㖝㖞㖟㖠㖡㖢㖣㖤㖥㖦㖧㖨",
     "㖩㖪㖫㖬㖭㖮㖯㖰㖱㖲㖳㖴㖵㖶㖷㖸㖹㖺㖻㖼㖽㖾㖿㗀㗁㗂㗃㗄㗅㗆㗇㗈㗉㗊㗋㗌㗍㗎㗏㗐㗑㗒㗓㗔㗕㗖㗗㗘",
     "㗙㗚㗛㗜㗝㗞㗟㗠㗡㗢㗣㗤㗥㗦㗧㗨㗩㗪㗫㗬㗭㗮㗯㗰㗱㗲㗳㗴㗵㗶㗷㗸㗹㗺㗻㗼㗽㗾㗿㚀㚁㚂㚃㚄㚅㚆㚇㚈",
     "㚉㚊㚋㚌㚍㚎㚏㚐㚑㚒㚓㚔㚕㚖㚗㚘㚙㚚㚛㚜㚝㚞㚟㚠㚡㚢㚣㚤㚥㚦㚧㚨㚩㚪㚫㚬㚭㚮㚯㚰㚱㚲㚳㚴㚵㚶㚷㚸",
     "㚹㚺㚻㚼㚽㚾㚿㛀㛁㛂㛃㛄㛅㛆㛇㛈㛉㛊㛋㛌㛍㛎㛏㛐㛑㛒㛓㛔㛕㛖㛗㛘㛙㛚㛛㛜㛝㛞㛟㛠㛡㛢㛣㛤㛥㛦㛧㛨",
     "㛩㛪㛫㛬㛭㛮㛯㛰㛱㛲㛳㛴㛵㛶㛷㛸㛹㛺㛻㛼㛽㛾㛿㞀㞁㞂㞃㞄㞅㞆㞇㞈㞉㞊㞋㞌㞍㞎㞏㞐㞑㞒㞓㞔㞕㞖㞗㞘",
     "㞙㞚㞛㞜㞝㞞㞟㞠㞡㞢㞣㞤㞥㞦㞧㞨㞩㞪㞫㞬㞭㞮㞯㞰㞱㞲㞳㞴㞵㞶㞷㞸㞹㞺㞻㞼㞽㞾㞿㟀㟁㟂㟃㟄㟅㟆㟇㟈",
     "㟉㟊㟋㟌㟍㟎㟏㟐㟑㟒㟓㟔㟕㟖㟗㟘㟙㟚㟛㟜㟝㟞㟟㟠㟡㟢㟣㟤㟥㟦㟧㟨㟩㟪㟫㟬㟭㟮㟯㟰㟱㟲㟳㟴㟵㟶㟷㟸",
     "㟹㟺㟻㟼㟽㟾㟿㢀㢁㢂㢃㢄㢅㢆㢇㢈㢉㢊㢋㢌㢍㢎㢏㢐㢑㢒㢓㢔㢕㢖㢗㢘㢙㢚㢛㢜㢝㢞㢟㢠㢡㢢㢣㢤㢥㢦㢧㢨",
     "㢩㢪㢫㢬㢭㢮㢯㢰㢱㢲㢳㢴㢵㢶㢷㢸㢹㢺㢻㢼㢽㢾㢿㣀㣁㣂㣃㣄㣅㣆㣇㣈㣉㣊㣋㣌㣍㣎㣏㣐㣑㣒㣓㣔㣕㣖㣗㣘",
     "㣙㣚㣛㣜㣝㣞㣟㣠㣡㣢㣣㣤㣥㣦㣧㣨㣩㣪㣫㣬㣭㣮㣯㣰㣱㣲㣳㣴㣵㣶㣷㣸㣹㣺㣻㣼㣽㣾㣿㦀㦁㦂㦃㦄㦅㦆㦇㦈",
     "㦉㦊㦋㦌㦍㦎㦏㦐㦑㦒㦓㦔㦕㦖㦗㦘㦙㦚㦛㦜㦝㦞㦟㦠㦡㦢㦣㦤㦥㦦㦧㦨㦩㦪㦫㦬㦭㦮㦯㦰㦱㦲㦳㦴㦵㦶㦷㦸",
     "㦹㦺㦻㦼㦽㦾㦿㧀㧁㧂㧃㧄㧅㧆㧇㧈㧉㧊㧋㧌㧍㧎㧏㧐㧑㧒㧓㧔㧕㧖㧗㧘㧙㧚㧛㧜㧝㧞㧟㧠㧡㧢㧣㧤㧥㧦㧧㧨",
     "㧩㧪㧫㧬㧭㧮㧯㧰㧱㧲㧳㧴㧵㧶㧷㧸㧹㧺㧻㧼㧽㧾㧿㪀㪁㪂㪃㪄㪅㪆㪇㪈㪉㪊㪋㪌㪍㪎㪏㪐㪑㪒㪓㪔㪕㪖㪗㪘",
     "㪙㪚㪛㪜㪝㪞㪟㪠㪡㪢㪣㪤㪥㪦㪧㪨㪩㪪㪫㪬㪭㪮㪯㪰㪱㪲㪳㪴㪵㪶㪷㪸㪹㪺㪻㪼㪽㪾㪿㫀㫁㫂㫃㫄㫅㫆㫇㫈",
     "㫉㫊㫋㫌㫍㫎㫏㫐㫑㫒㫓㫔㫕㫖㫗㫘㫙㫚㫛㫜㫝㫞㫟㫠㫡㫢㫣㫤㫥㫦㫧㫨㫩㫪㫫㫬㫭㫮㫯㫰㫱㫲㫳㫴㫵㫶㫷㫸",
     "㫹㫺㫻㫼㫽㫾㫿㮀㮁㮂㮃㮄㮅㮆㮇㮈㮉㮊㮋㮌㮍㮎㮏㮐㮑㮒㮓㮔㮕㮖㮗㮘㮙㮚㮛㮜㮝㮞㮟㮠㮡㮢㮣㮤㮥㮦㮧㮨",
     "㮩㮪㮫㮬㮭㮮㮯㮰㮱㮲㮳㮴㮵㮶㮷㮸㮹㮺㮻㮼㮽㮾㮿㯀㯁㯂㯃㯄㯅㯆㯇㯈㯉㯊㯋㯌㯍㯎㯏㯐㯑㯒㯓㯔㯕㯖㯗㯘",
     "㯙㯚㯛㯜㯝㯞㯟㯠㯡㯢㯣㯤㯥㯦㯧㯨㯩㯪㯫㯬㯭㯮㯯㯰㯱㯲㯳㯴㯵㯶㯷㯸㯹㯺㯻㯼㯽㯾㯿㲀㲁㲂㲃㲄㲅㲆㲇㲈",
     "㲉㲊㲋㲌㲍㲎㲏㲐㲑㲒㲓㲔㲕㲖㲗㲘㲙㲚㲛㲜㲝㲞㲟㲠㲡㲢㲣㲤㲥㲦㲧㲨㲩㲪㲫㲬㲭㲮㲯㲰㲱㲲㲳㲴㲵㲶㲷㲸",
     "㲹㲺㲻㲼㲽㲾㲿㳀㳁㳂㳃㳄㳅㳆㳇㳈㳉㳊㳋㳌㳍㳎㳏㳐㳑㳒㳓㳔㳕㳖㳗㳘㳙㳚㳛㳜㳝㳞㳟㳠㳡㳢㳣㳤㳥㳦㳧㳨",
     "㳩㳪㳫㳬㳭㳮㳯㳰㳱㳲㳳㳴㳵㳶㳷㳸㳹㳺㳻㳼㳽㳾㳿㶀㶁㶂㶃㶄㶅㶆㶇㶈㶉㶊㶋㶌㶍㶎㶏㶐㶑㶒㶓㶔㶕㶖㶗㶘",
     "㶙㶚㶛㶜㶝㶞㶟㶠㶡㶢㶣㶤㶥㶦㶧㶨㶩㶪㶫㶬㶭㶮㶯㶰㶱㶲㶳㶴㶵㶶㶷㶸㶹㶺㶻㶼㶽㶾㶿㷀㷁㷂㷃㷄㷅㷆㷇㷈",
     "㷉㷊㷋㷌㷍㷎㷏㷐㷑㷒㷓㷔㷕㷖㷗㷘㷙㷚㷛㷜㷝㷞㷟㷠㷡㷢㷣㷤㷥㷦㷧㷨㷩㷪㷫㷬㷭㷮㷯㷰㷱㷲㷳㷴㷵㷶㷷㷸",
     "㷹㷺㷻㷼㷽㷾㷿㺀㺁㺂㺃㺄㺅㺆㺇㺈㺉㺊㺋㺌㺍㺎㺏㺐㺑㺒㺓㺔㺕㺖㺗㺘㺙㺚㺛㺜㺝㺞㺟㺠㺡㺢㺣㺤㺥㺦㺧㺨",
     "㺩㺪㺫㺬㺭㺮㺯㺰㺱㺲㺳㺴㺵㺶㺷㺸㺹㺺㺻㺼㺽㺾㺿㻀㻁㻂㻃㻄㻅㻆㻇㻈㻉㻊㻋㻌㻍㻎㻏㻐㻑㻒㻓㻔㻕㻖㻗㻘",
     "㻙㻚㻛㻜㻝㻞㻟㻠㻡㻢㻣㻤㻥㻦㻧㻨㻩㻪㻫㻬㻭㻮㻯㻰㻱㻲㻳㻴㻵㻶㻷㻸㻹㻺㻻㻼㻽㻾㻿㾀㾁㾂㾃㾄㾅㾆㾇㾈",
     "㾉㾊㾋㾌㾍㾎㾏㾐㾑㾒㾓㾔㾕㾖㾗㾘㾙㾚㾛㾜㾝㾞㾟㾠㾡㾢㾣㾤㾥㾦㾧㾨㾩㾪㾫㾬㾭㾮㾯㾰㾱㾲㾳㾴㾵㾶㾷㾸",
     "㾹㾺㾻㾼㾽㾾㾿㿀㿁㿂㿃㿄㿅㿆㿇㿈㿉㿊㿋㿌㿍㿎㿏㿐㿑㿒㿓㿔㿕㿖㿗㿘㿙㿚㿛㿜㿝㿞㿟㿠㿡㿢㿣㿤㿥㿦㿧㿨",
     "㿩㿪㿫㿬㿭㿮㿯㿰㿱㿲㿳㿴㿵㿶㿷㿸㿹㿺㿻㿼㿽㿾㿿䂀䂁䂂䂃䂄䂅䂆䂇䂈䂉䂊䂋䂌䂍䂎䂏䂐䂑䂒䂓䂔䂕䂖䂗䂘",
     "䂙䂚䂛䂜䂝䂞䂟䂠䂡䂢䂣䂤䂥䂦䂧䂨䂩䂪䂫䂬䂭䂮䂯䂰䂱䂲䂳䂴䂵䂶䂷䂸䂹䂺䂻䂼䂽䂾䂿䃀䃁䃂䃃䃄䃅䃆䃇䃈",
     "䃉䃊䃋䃌䃍䃎䃏䃐䃑䃒䃓䃔䃕䃖䃗䃘䃙䃚䃛䃜䃝䃞䃟䃠䃡䃢䃣䃤䃥䃦䃧䃨䃩䃪䃫䃬䃭䃮䃯䃰䃱䃲䃳䃴䃵䃶䃷䃸",
     "䃹䃺䃻䃼䃽䃾䃿䆀䆁䆂䆃䆄䆅䆆䆇䆈䆉䆊䆋䆌䆍䆎䆏䆐䆑䆒䆓䆔䆕䆖䆗䆘䆙䆚䆛䆜䆝䆞䆟䆠䆡䆢䆣䆤䆥䆦䆧䆨",
     "䆩䆪䆫䆬䆭䆮䆯䆰䆱䆲䆳䆴䆵䆶䆷䆸䆹䆺䆻䆼䆽䆾䆿䇀䇁䇂䇃䇄䇅䇆䇇䇈䇉䇊䇋䇌䇍䇎䇏䇐䇑䇒䇓䇔䇕䇖䇗䇘",
     "䇙䇚䇛䇜䇝䇞䇟䇠䇡䇢䇣䇤䇥䇦䇧䇨䇩䇪䇫䇬䇭䇮䇯䇰䇱䇲䇳䇴䇵䇶䇷䇸䇹䇺䇻䇼䇽䇾䇿䊀䊁䊂䊃䊄䊅䊆䊇䊈",
     "䊉䊊䊋䊌䊍䊎䊏䊐䊑䊒䊓䊔䊕䊖䊗䊘䊙䊚䊛䊜䊝䊞䊟䊠䊡䊢䊣䊤䊥䊦䊧䊨䊩䊪䊫䊬䊭䊮䊯䊰䊱䊲䊳䊴䊵䊶䊷䊸",
     "䊹䊺䊻䊼䊽䊾䊿䋀䋁䋂䋃䋄䋅䋆䋇䋈䋉䋊䋋䋌䋍䋎䋏䋐䋑䋒䋓䋔䋕䋖䋗䋘䋙䋚䋛䋜䋝䋞䋟䋠䋡䋢䋣䋤䋥䋦䋧䋨",
     "䋩䋪䋫䋬䋭䋮䋯䋰䋱䋲䋳䋴䋵䋶䋷䋸䋹䋺䋻䋼䋽䋾䋿䎀䎁䎂䎃䎄䎅䎆䎇䎈䎉䎊䎋䎌䎍䎎䎏䎐䎑䎒䎓䎔䎕䎖䎗䎘",
     "䎙䎚䎛䎜䎝䎞䎟䎠䎡䎢䎣䎤䎥䎦䎧䎨䎩䎪䎫䎬䎭䎮䎯䎰䎱䎲䎳䎴䎵䎶䎷䎸䎹䎺䎻䎼䎽䎾䎿䏀䏁䏂䏃䏄䏅䏆䏇䏈",
     "䏉䏊䏋䏌䏍䏎䏏䏐䏑䏒䏓䏔䏕䏖䏗䏘䏙䏚䏛䏜䏝䏞䏟䏠䏡䏢䏣䏤䏥䏦䏧䏨䏩䏪䏫䏬䏭䏮䏯䏰䏱䏲䏳䏴䏵䏶䏷䏸",
     "䏹䏺䏻䏼䏽䏾䏿䒀䒁䒂䒃䒄䒅䒆䒇䒈䒉䒊䒋䒌䒍䒎䒏䒐䒑䒒䒓䒔䒕䒖䒗䒘䒙䒚䒛䒜䒝䒞䒟䒠䒡䒢䒣䒤䒥䒦䒧䒨",
     "䒩䒪䒫䒬䒭䒮䒯䒰䒱䒲䒳䒴䒵䒶䒷䒸䒹䒺䒻䒼䒽䒾䒿䓀䓁䓂䓃䓄䓅䓆䓇䓈䓉䓊䓋䓌䓍䓎䓏䓐䓑䓒䓓䓔䓕䓖䓗䓘",
     "䓙䓚䓛䓜䓝䓞䓟䓠䓡䓢䓣䓤䓥䓦䓧䓨䓩䓪䓫䓬䓭䓮䓯䓰䓱䓲䓳䓴䓵䓶䓷䓸䓹䓺䓻䓼䓽䓾䓿䖀䖁䖂䖃䖄䖅䖆䖇䖈",
     "䖉䖊䖋䖌䖍䖎䖏䖐䖑䖒䖓䖔䖕䖖䖗䖘䖙䖚䖛䖜䖝䖞䖟䖠䖡䖢䖣䖤䖥䖦䖧䖨䖩䖪䖫䖬䖭䖮䖯䖰䖱䖲䖳䖴䖵䖶䖷䖸",
     "䖹䖺䖻䖼䖽䖾䖿䗀䗁䗂䗃䗄䗅䗆䗇䗈䗉䗊䗋䗌䗍䗎䗏䗐䗑䗒䗓䗔䗕䗖䗗䗘䗙䗚䗛䗜䗝䗞䗟䗠䗡䗢䗣䗤䗥䗦䗧䗨",
     "䗩䗪䗫䗬䗭䗮䗯䗰䗱䗲䗳䗴䗵䗶䗷䗸䗹䗺䗻䗼䗽䗾䗿䚀䚁䚂䚃䚄䚅䚆䚇䚈䚉䚊䚋䚌䚍䚎䚏䚐䚑䚒䚓䚔䚕䚖䚗䚘",
     "䚙䚚䚛䚜䚝䚞䚟䚠䚡䚢䚣䚤䚥䚦䚧䚨䚩䚪䚫䚬䚭䚮䚯䚰䚱䚲䚳䚴䚵䚶䚷䚸䚹䚺䚻䚼䚽䚾䚿䛀䛁䛂䛃䛄䛅䛆䛇䛈",
     "䛉䛊䛋䛌䛍䛎䛏䛐䛑䛒䛓䛔䛕䛖䛗䛘䛙䛚䛛䛜䛝䛞䛟䛠䛡䛢䛣䛤䛥䛦䛧䛨䛩䛪䛫䛬䛭䛮䛯䛰䛱䛲䛳䛴䛵䛶䛷䛸",
     "䛹䛺䛻䛼䛽䛾䛿䞀䞁䞂䞃䞄䞅䞆䞇䞈䞉䞊䞋䞌䞍䞎䞏䞐䞑䞒䞓䞔䞕䞖䞗䞘䞙䞚䞛䞜䞝䞞䞟䞠䞡䞢䞣䞤䞥䞦䞧䞨",
     "䞩䞪䞫䞬䞭䞮䞯䞰䞱䞲䞳䞴䞵䞶䞷䞸䞹䞺䞻䞼䞽䞾䞿䟀䟁䟂䟃䟄䟅䟆䟇䟈䟉䟊䟋䟌䟍䟎䟏䟐䟑䟒䟓䟔䟕䟖䟗䟘",
     "䟙䟚䟛䟜䟝䟞䟟䟠䟡䟢䟣䟤䟥䟦䟧䟨䟩䟪䟫䟬䟭䟮䟯䟰䟱䟲䟳䟴䟵䟶䟷䟸䟹䟺䟻䟼䟽䟾䟿䢀䢁䢂䢃䢄䢅䢆䢇䢈",
     "䢉䢊䢋䢌䢍䢎䢏䢐䢑䢒䢓䢔䢕䢖䢗䢘䢙䢚䢛䢜䢝䢞䢟䢠䢡䢢䢣䢤䢥䢦䢧䢨䢩䢪䢫䢬䢭䢮䢯䢰䢱䢲䢳䢴䢵䢶䢷䢸",
     "䢹䢺䢻䢼䢽䢾䢿䣀䣁䣂䣃䣄䣅䣆䣇䣈䣉䣊䣋䣌䣍䣎䣏䣐䣑䣒䣓䣔䣕䣖䣗䣘䣙䣚䣛䣜䣝䣞䣟䣠䣡䣢䣣䣤䣥䣦䣧䣨",
     "䣩䣪䣫䣬䣭䣮䣯䣰䣱䣲䣳䣴䣵䣶䣷䣸䣹䣺䣻䣼䣽䣾䣿䦀䦁䦂䦃䦄䦅䦆䦇䦈䦉䦊䦋䦌䦍䦎䦏䦐䦑䦒䦓䦔䦕䦖䦗䦘",
     "䦙䦚䦛䦜䦝䦞䦟䦠䦡䦢䦣䦤䦥䦦䦧䦨䦩䦪䦫䦬䦭䦮䦯䦰䦱䦲䦳䦴䦵䦶䦷䦸䦹䦺䦻䦼䦽䦾䦿䧀䧁䧂䧃䧄䧅䧆䧇䧈",
     "䧉䧊䧋䧌䧍䧎䧏䧐䧑䧒䧓䧔䧕䧖䧗䧘䧙䧚䧛䧜䧝䧞䧟䧠䧡䧢䧣䧤䧥䧦䧧䧨䧩䧪䧫䧬䧭䧮䧯䧰䧱䧲䧳䧴䧵䧶䧷䧸",
     "䧹䧺䧻䧼䧽䧾䧿䪀䪁䪂䪃䪄䪅䪆䪇䪈䪉䪊䪋䪌䪍䪎䪏䪐䪑䪒䪓䪔䪕䪖䪗䪘䪙䪚䪛䪜䪝䪞䪟䪠䪡䪢䪣䪤䪥䪦䪧䪨",
     "䪩䪪䪫䪬䪭䪮䪯䪰䪱䪲䪳䪴䪵䪶䪷䪸䪹䪺䪻䪼䪽䪾䪿䫀䫁䫂䫃䫄䫅䫆䫇䫈䫉䫊䫋䫌䫍䫎䫏䫐䫑䫒䫓䫔䫕䫖䫗䫘",
     "䫙䫚䫛䫜䫝䫞䫟䫠䫡䫢䫣䫤䫥䫦䫧䫨䫩䫪䫫䫬䫭䫮䫯䫰䫱䫲䫳䫴䫵䫶䫷䫸䫹䫺䫻䫼䫽䫾䫿䮀䮁䮂䮃䮄䮅䮆䮇䮈",
     "䮉䮊䮋䮌䮍䮎䮏䮐䮑䮒䮓䮔䮕䮖䮗䮘䮙䮚䮛䮜䮝䮞䮟䮠䮡䮢䮣䮤䮥䮦䮧䮨䮩䮪䮫䮬䮭䮮䮯䮰䮱䮲䮳䮴䮵䮶䮷䮸",
     "䮹䮺䮻䮼䮽䮾䮿䯀䯁䯂䯃䯄䯅䯆䯇䯈䯉䯊䯋䯌䯍䯎䯏䯐䯑䯒䯓䯔䯕䯖䯗䯘䯙䯚䯛䯜䯝䯞䯟䯠䯡䯢䯣䯤䯥䯦䯧䯨",
     "䯩䯪䯫䯬䯭䯮䯯䯰䯱䯲䯳䯴䯵䯶䯷䯸䯹䯺䯻䯼䯽䯾䯿䲀䲁䲂䲃䲄䲅䲆䲇䲈䲉䲊䲋䲌䲍䲎䲏䲐䲑䲒䲓䲔䲕䲖䲗䲘",
     "䲙䲚䲛䲜䲝䲞䲟䲠䲡䲢䲣䲤䲥䲦䲧䲨䲩䲪䲫䲬䲭䲮䲯䲰䲱䲲䲳䲴䲵䲶䲷䲸䲹䲺䲻䲼䲽䲾䲿䳀䳁䳂䳃䳄䳅䳆䳇䳈",
     "䳉䳊䳋䳌䳍䳎䳏䳐䳑䳒䳓䳔䳕䳖䳗䳘䳙䳚䳛䳜䳝䳞䳟䳠䳡䳢䳣䳤䳥䳦䳧䳨䳩䳪䳫䳬䳭䳮䳯䳰䳱䳲䳳䳴䳵䳶䳷䳸",
     "䳹䳺䳻䳼䳽䳾䳿䶀䶁䶂䶃䶄䶅䶆䶇䶈䶉䶊䶋䶌䶍䶎䶏䶐䶑䶒䶓䶔䶕䶖䶗䶘䶙䶚䶛䶜䶝䶞䶟䶠䶡䶢䶣䶤䶥䶦䶧䶨",
     "䶩䶪䶫䶬䶭䶮䶯䶰䶱䶲䶳䶴䶵䶶䶷䶸䶹䶺䶻䶼䶽䶾䶿亀亁亂亃亄亅了亇予争亊事二亍于亏亐云互亓五井亖亗亘",
     "亙亚些亜亝亞亟亠亡亢亣交亥亦产亨亩亪享京亭亮亯亰亱亲亳亴亵亶亷亸亹人亻亼亽亾亿什仁仂仃仄仅仆仇仈",
     "仉今介仌仍从仏仐仑仒仓仔仕他仗付仙仚仛仜仝仞仟仠仡仢代令以仦仧仨仩仪仫们仭仮仯仰仱仲仳仴仵件价仸",
     "仹仺任仼份仾仿侀侁侂侃侄侅來侇侈侉侊例侌侍侎侏侐侑侒侓侔侕侖侗侘侙侚供侜依侞侟侠価侢侣侤侥侦侧侨",
     "侩侪侫侬侭侮侯侰侱侲侳侴侵侶侷侸侹侺侻侼侽侾便俀俁係促俄俅俆俇俈俉俊俋俌俍俎俏俐俑俒俓俔俕俖俗俘",
     "俙俚俛俜保俞俟俠信俢俣俤俥俦俧俨俩俪俫俬俭修俯俰俱俲俳俴俵俶俷俸俹俺俻俼俽俾俿傀傁傂傃傄傅傆傇傈",
     "傉傊傋傌傍傎傏傐傑傒傓傔傕傖傗傘備傚傛傜傝傞傟傠傡傢傣傤傥傦傧储傩傪傫催傭傮傯傰傱傲傳傴債傶傷傸",
     "傹傺傻傼傽傾傿僀僁僂僃僄僅僆僇僈僉僊僋僌働僎像僐僑僒僓僔僕僖僗僘僙僚僛僜僝僞僟僠僡僢僣僤僥僦僧僨",
     "僩僪僫僬僭僮僯僰僱僲僳僴僵僶僷僸價僺僻僼僽僾僿冀冁冂冃冄内円冇冈冉冊冋册再冎冏冐冑冒冓冔冕冖冗冘",
     "写冚军农冝冞冟冠冡冢冣冤冥冦冧冨冩冪冫冬冭冮冯冰冱冲决冴况冶冷冸冹冺冻冼冽冾冿净凁凂凃凄凅准凇凈",
     "凉凊凋凌凍凎减凐凑凒凓凔凕凖凗凘凙凚凛凜凝凞凟几凡凢凣凤凥処凧凨凩凪凫凬凭凮凯凰凱凲凳凴凵凶凷凸",
     "凹出击凼函凾凿劀劁劂劃劄劅劆劇劈劉劊劋劌劍劎劏劐劑劒劓劔劕劖劗劘劙劚力劜劝办功加务劢劣劤劥劦劧动",
     "助努劫劬劭劮劯劰励劲劳労劵劶劷劸効劺劻劼劽劾势勀勁勂勃勄勅勆勇勈勉勊勋勌勍勎勏勐勑勒勓勔動勖勗勘",
     "務勚勛勜勝勞募勠勡勢勣勤勥勦勧勨勩勪勫勬勭勮勯勰勱勲勳勴勵勶勷勸勹勺勻勼勽勾勿厀厁厂厃厄厅历厇厈",
     "厉厊压厌厍厎厏厐厑厒厓厔厕厖厗厘厙厚厛厜厝厞原厠厡厢厣厤厥厦厧厨厩厪厫厬厭厮厯厰厱厲厳厴厵厶厷厸",
     "厹厺去厼厽厾县叀叁参參叄叅叆叇又叉及友双反収叏叐发叒叓叔叕取受变叙叚叛叜叝叞叟叠叡叢口古句另叧叨",
     "叩只叫召叭叮可台叱史右叴叵叶号司叹叺叻叼叽叾叿咀咁咂咃咄咅咆咇咈咉咊咋和咍咎咏咐咑咒咓咔咕咖咗咘",
     "咙咚咛咜咝咞咟咠咡咢咣咤咥咦咧咨咩咪咫咬咭咮咯咰咱咲咳咴咵咶咷咸咹咺咻咼咽咾咿哀品哂哃哄哅哆哇哈",
     "哉哊哋哌响哎哏哐哑哒哓哔哕哖哗哘哙哚哛哜哝哞哟哠員哢哣哤哥哦哧哨哩哪哫哬哭哮哯哰哱哲哳哴哵哶哷哸",
     "哹哺哻哼哽哾哿喀喁喂喃善喅喆喇喈喉喊喋喌喍喎喏喐喑喒喓喔喕喖喗喘喙喚喛喜喝喞喟喠喡喢喣喤喥喦喧喨",
     "喩喪喫喬喭單喯喰喱喲喳喴喵営喷喸喹喺喻喼喽喾喿嗀嗁嗂嗃嗄嗅嗆嗇嗈嗉嗊嗋嗌嗍嗎嗏嗐嗑嗒嗓嗔嗕嗖嗗嗘",
     "嗙嗚嗛嗜嗝嗞嗟嗠嗡嗢嗣嗤嗥嗦嗧嗨嗩嗪嗫嗬嗭嗮嗯嗰嗱嗲嗳嗴嗵嗶嗷嗸嗹嗺嗻嗼嗽嗾嗿嚀嚁嚂嚃嚄嚅嚆嚇嚈",
     "嚉嚊嚋嚌嚍嚎嚏嚐嚑嚒嚓嚔嚕嚖嚗嚘嚙嚚嚛嚜嚝嚞嚟嚠嚡嚢嚣嚤嚥嚦嚧嚨嚩嚪嚫嚬嚭嚮嚯嚰嚱嚲嚳嚴嚵嚶嚷嚸",
     "嚹嚺嚻嚼嚽嚾嚿囀囁囂囃囄囅囆囇囈囉囊囋囌囍囎囏囐囑囒囓囔囕囖囗囘囙囚四囜囝回囟因囡团団囤囥囦囧囨",
     "囩囪囫囬园囮囯困囱囲図围囵囶囷囸囹固囻囼国图囿垀垁垂垃垄垅垆垇垈垉垊型垌垍垎垏垐垑垒垓垔垕垖垗垘",
     "垙垚垛垜垝垞垟垠垡垢垣垤垥垦垧垨垩垪垫垬垭垮垯垰垱垲垳垴垵垶垷垸垹垺垻垼垽垾垿埀埁埂埃埄埅埆埇埈",
     "埉埊埋埌埍城埏埐埑埒埓埔埕埖埗埘埙埚埛埜埝埞域埠埡埢埣埤埥埦埧埨埩埪埫埬埭埮埯埰埱埲埳埴埵埶執埸",
     "培基埻埼埽埾埿墀墁墂境墄墅墆墇墈墉墊墋墌墍墎墏墐墑墒墓墔墕墖増墘墙墚墛墜墝增墟墠墡墢墣墤墥墦墧墨",
     "墩墪墫墬墭墮墯墰墱墲墳墴墵墶墷墸墹墺墻墼墽墾墿壀壁壂壃壄壅壆壇壈壉壊壋壌壍壎壏壐壑壒壓壔壕壖壗壘",
     "壙壚壛壜壝壞壟壠壡壢壣壤壥壦壧壨壩壪士壬壭壮壯声壱売壳壴壵壶壷壸壹壺壻壼壽壾壿妀妁如妃妄妅妆妇妈",
     "妉妊妋妌妍妎妏妐妑妒妓妔妕妖妗妘妙妚妛妜妝妞妟妠妡妢妣妤妥妦妧妨妩妪妫妬妭妮妯妰妱妲妳妴妵妶妷妸",
     "妹妺妻妼妽妾妿姀姁姂姃姄姅姆姇姈姉姊始姌姍姎姏姐姑姒姓委姕姖姗姘姙姚姛姜姝姞姟姠姡姢姣姤姥姦姧姨",
     "姩姪姫姬姭姮姯姰姱姲姳姴姵姶姷姸姹姺姻姼姽姾姿媀媁媂媃媄媅媆媇媈媉媊媋媌媍媎媏媐媑媒媓媔媕媖媗媘",
     "媙媚媛媜媝媞媟媠媡媢媣媤媥媦媧媨媩媪媫媬媭媮媯媰媱媲媳媴媵媶媷媸媹媺媻媼媽媾媿嫀嫁嫂嫃嫄嫅嫆嫇嫈",
     "嫉嫊嫋嫌嫍嫎嫏嫐嫑嫒嫓嫔嫕嫖嫗嫘嫙嫚嫛嫜嫝嫞嫟嫠嫡嫢嫣嫤嫥嫦嫧嫨嫩嫪嫫嫬嫭嫮嫯嫰嫱嫲嫳嫴嫵嫶嫷嫸",
     "嫹嫺嫻嫼嫽嫾嫿宀宁宂它宄宅宆宇守安宊宋完宍宎宏宐宑宒宓宔宕宖宗官宙定宛宜宝实実宠审客宣室宥宦宧宨",
     "宩宪宫宬宭宮宯宰宱宲害宴宵家宷宸容宺宻宼宽宾宿寀寁寂寃寄寅密寇寈寉寊寋富寍寎寏寐寑寒寓寔寕寖寗寘",
     "寙寚寛寜寝寞察寠寡寢寣寤寥實寧寨審寪寫寬寭寮寯寰寱寲寳寴寵寶寷寸对寺寻导寽対寿岀岁岂岃岄岅岆岇岈",
     "岉岊岋岌岍岎岏岐岑岒岓岔岕岖岗岘岙岚岛岜岝岞岟岠岡岢岣岤岥岦岧岨岩岪岫岬岭岮岯岰岱岲岳岴岵岶岷岸",
     "岹岺岻岼岽岾岿峀峁峂峃峄峅峆峇峈峉峊峋峌峍峎峏峐峑峒峓峔峕峖峗峘峙峚峛峜峝峞峟峠峡峢峣峤峥峦峧峨",
     "峩峪峫峬峭峮峯峰峱峲峳峴峵島峷峸峹峺峻峼峽峾峿嶀嶁嶂嶃嶄嶅嶆嶇嶈嶉嶊嶋嶌嶍嶎嶏嶐嶑嶒嶓嶔嶕嶖嶗嶘",
     "嶙嶚嶛嶜嶝嶞嶟嶠嶡嶢嶣嶤嶥嶦嶧嶨嶩嶪嶫嶬嶭嶮嶯嶰嶱嶲嶳嶴嶵嶶嶷嶸嶹嶺嶻嶼嶽嶾嶿巀巁巂巃巄巅巆巇巈",
     "巉巊巋巌巍巎巏巐巑巒巓巔巕巖巗巘巙巚巛巜川州巟巠巡巢巣巤工左巧巨巩巪巫巬巭差巯巰己已巳巴巵巶巷巸",
     "巹巺巻巼巽巾巿庀庁庂広庄庅庆庇庈庉床庋庌庍庎序庐庑庒库应底庖店庘庙庚庛府庝庞废庠庡庢庣庤庥度座庨",
     "庩庪庫庬庭庮庯庰庱庲庳庴庵庶康庸庹庺庻庼庽庾庿廀廁廂廃廄廅廆廇廈廉廊廋廌廍廎廏廐廑廒廓廔廕廖廗廘",
     "廙廚廛廜廝廞廟廠廡廢廣廤廥廦廧廨廩廪廫廬廭廮廯廰廱廲廳廴廵延廷廸廹建廻廼廽廾廿往征徂徃径待徆徇很",
     "徉徊律後徍徎徏徐徑徒従徔徕徖得徘徙徚徛徜徝從徟徠御徢徣徤徥徦徧徨復循徫徬徭微徯徰徱徲徳徴徵徶德徸",
     "徹徺徻徼徽徾徿忀忁忂心忄必忆忇忈忉忊忋忌忍忎忏忐忑忒忓忔忕忖志忘忙忚忛応忝忞忟忠忡忢忣忤忥忦忧忨",
     "忩忪快忬忭忮忯忰忱忲忳忴念忶忷忸忹忺忻忼忽忾忿悀悁悂悃悄悅悆悇悈悉悊悋悌悍悎悏悐悑悒悓悔悕悖悗悘",
     "悙悚悛悜悝悞悟悠悡悢患悤悥悦悧您悩悪悫悬悭悮悯悰悱悲悳悴悵悶悷悸悹悺悻悼悽悾悿惀惁惂惃惄情惆惇惈",
     "惉惊惋惌惍惎惏惐惑惒惓惔惕惖惗惘惙惚惛惜惝惞惟惠惡惢惣惤惥惦惧惨惩惪惫惬惭惮惯惰惱惲想惴惵惶惷惸",
     "惹惺惻惼惽惾惿憀憁憂憃憄憅憆憇憈憉憊憋憌憍憎憏憐憑憒憓憔憕憖憗憘憙憚憛憜憝憞憟憠憡憢憣憤憥憦憧憨",
     "憩憪憫憬憭憮憯憰憱憲憳憴憵憶憷憸憹憺憻憼憽憾憿懀懁懂懃懄懅懆懇懈應懊懋懌懍懎懏懐懑懒懓懔懕懖懗懘",
     "懙懚懛懜懝懞懟懠懡懢懣懤懥懦懧懨懩懪懫懬懭懮懯懰懱懲懳懴懵懶懷懸懹懺懻懼懽懾懿技抁抂抃抄抅抆抇抈",
     "抉把抋抌抍抎抏抐抑抒抓抔投抖抗折抙抚抛抜抝択抟抠抡抢抣护报抦抧抨抩抪披抬抭抮抯抰抱抲抳抴抵抶抷抸",
     "抹抺抻押抽抾抿拀拁拂拃拄担拆拇拈拉拊拋拌拍拎拏拐拑拒拓拔拕拖拗拘拙拚招拜拝拞拟拠拡拢拣拤拥拦拧拨",
     "择拪拫括拭拮拯拰拱拲拳拴拵拶拷拸拹拺拻拼拽拾拿掀掁掂掃掄掅掆掇授掉掊掋掌掍掎掏掐掑排掓掔掕掖掗掘",
     "掙掚掛掜掝掞掟掠採探掣掤接掦控推掩措掫掬掭掮掯掰掱掲掳掴掵掶掷掸掹掺掻掼掽掾掿揀揁揂揃揄揅揆揇揈",
     "揉揊揋揌揍揎描提揑插揓揔揕揖揗揘揙揚換揜揝揞揟揠握揢揣揤揥揦揧揨揩揪揫揬揭揮揯揰揱揲揳援揵揶揷揸",
     "揹揺揻揼揽揾揿撀撁撂撃撄撅撆撇撈撉撊撋撌撍撎撏撐撑撒撓撔撕撖撗撘撙撚撛撜撝撞撟撠撡撢撣撤撥撦撧撨",
     "撩撪撫撬播撮撯撰撱撲撳撴撵撶撷撸撹撺撻撼撽撾撿擀擁擂擃擄擅擆擇擈擉擊擋擌操擎擏擐擑擒擓擔擕擖擗擘",
     "擙據擛擜擝擞擟擠擡擢擣擤擥擦擧擨擩擪擫擬擭擮擯擰擱擲擳擴擵擶擷擸擹擺擻擼擽擾擿斀斁斂斃斄斅斆文斈",
     "斉斊斋斌斍斎斏斐斑斒斓斔斕斖斗斘料斚斛斜斝斞斟斠斡斢斣斤斥斦斧斨斩斪斫斬断斮斯新斱斲斳斴斵斶斷斸",
     "方斺斻於施斾斿旀旁旂旃旄旅旆旇旈旉旊旋旌旍旎族旐旑旒旓旔旕旖旗旘旙旚旛旜旝旞旟无旡既旣旤日旦旧旨",
     "早旪旫旬旭旮旯旰旱旲旳旴旵时旷旸旹旺旻旼旽旾旿暀暁暂暃暄暅暆暇暈暉暊暋暌暍暎暏暐暑暒暓暔暕暖暗暘",
     "暙暚暛暜暝暞暟暠暡暢暣暤暥暦暧暨暩暪暫暬暭暮暯暰暱暲暳暴暵暶暷暸暹暺暻暼暽暾暿曀曁曂曃曄曅曆曇曈",
     "曉曊曋曌曍曎曏曐曑曒曓曔曕曖曗曘曙曚曛曜曝曞曟曠曡曢曣曤曥曦曧曨曩曪曫曬曭曮曯曰曱曲曳更曵曶曷書",
     "曹曺曻曼曽曾替枀极枂枃构枅枆枇枈枉枊枋枌枍枎枏析枑枒枓枔枕枖林枘枙枚枛果枝枞枟枠枡枢枣枤枥枦枧枨",
     "枩枪枫枬枭枮枯枰枱枲枳枴枵架枷枸枹枺枻枼枽枾枿柀柁柂柃柄柅柆柇柈柉柊柋柌柍柎柏某柑柒染柔柕柖柗柘",
     "柙柚柛柜柝柞柟柠柡柢柣柤查柦柧柨柩柪柫柬柭柮柯柰柱柲柳柴柵柶柷柸柹柺査柼柽柾柿梀梁梂梃梄梅梆梇梈",
     "梉梊梋梌梍梎梏梐梑梒梓梔梕梖梗梘梙梚梛梜條梞梟梠梡梢梣梤梥梦梧梨梩梪梫梬梭梮梯械梱梲梳梴梵梶梷梸",
     "梹梺梻梼梽梾梿检棁棂棃棄棅棆棇棈棉棊棋棌棍棎棏棐棑棒棓棔棕棖棗棘棙棚棛棜棝棞棟棠棡棢棣棤棥棦棧棨",
     "棩棪棫棬棭森棯棰棱棲棳棴棵棶棷棸棹棺棻棼棽棾棿榀榁概榃榄榅榆榇榈榉榊榋榌榍榎榏榐榑榒榓榔榕榖榗榘",
     "榙榚榛榜榝榞榟榠榡榢榣榤榥榦榧榨榩榪榫榬榭榮榯榰榱榲榳榴榵榶榷榸榹榺榻榼榽榾榿槀槁槂槃槄槅槆槇槈",
     "槉槊構槌槍槎槏槐槑槒槓槔槕槖槗様槙槚槛槜槝槞槟槠槡槢槣槤槥槦槧槨槩槪槫槬槭槮槯槰槱槲槳槴槵槶槷槸",
     "槹槺槻槼槽槾槿檀檁檂檃檄檅檆檇檈檉檊檋檌檍檎檏檐檑檒檓檔檕檖檗檘檙檚檛檜檝檞檟檠檡檢檣檤檥檦檧檨",
     "檩檪檫檬檭檮檯檰檱檲檳檴檵檶檷檸檹檺檻檼檽檾檿櫀櫁櫂櫃櫄櫅櫆櫇櫈櫉櫊櫋櫌櫍櫎櫏櫐櫑櫒櫓櫔櫕櫖櫗櫘",
     "櫙櫚櫛櫜櫝櫞櫟櫠櫡櫢櫣櫤櫥櫦櫧櫨櫩櫪櫫櫬櫭櫮櫯櫰櫱櫲櫳櫴櫵櫶櫷櫸櫹櫺櫻櫼櫽櫾櫿殀殁殂殃殄殅殆殇殈",
     "殉殊残殌殍殎殏殐殑殒殓殔殕殖殗殘殙殚殛殜殝殞殟殠殡殢殣殤殥殦殧殨殩殪殫殬殭殮殯殰殱殲殳殴段殶殷殸",
     "殹殺殻殼殽殾殿毀毁毂毃毄毅毆毇毈毉毊毋毌母毎每毐毑毒毓比毕毖毗毘毙毚毛毜毝毞毟毠毡毢毣毤毥毦毧毨",
     "毩毪毫毬毭毮毯毰毱毲毳毴毵毶毷毸毹毺毻毼毽毾毿沀沁沂沃沄沅沆沇沈沉沊沋沌沍沎沏沐沑沒沓沔沕沖沗沘",
     "沙沚沛沜沝沞沟沠没沢沣沤沥沦沧沨沩沪沫沬沭沮沯沰沱沲河沴沵沶沷沸油沺治沼沽沾沿泀況泂泃泄泅泆泇泈",
     "泉泊泋泌泍泎泏泐泑泒泓泔法泖泗泘泙泚泛泜泝泞泟泠泡波泣泤泥泦泧注泩泪泫泬泭泮泯泰泱泲泳泴泵泶泷泸",
     "泹泺泻泼泽泾泿涀涁涂涃涄涅涆涇消涉涊涋涌涍涎涏涐涑涒涓涔涕涖涗涘涙涚涛涜涝涞涟涠涡涢涣涤涥润涧涨",
     "涩涪涫涬涭涮涯涰涱液涳涴涵涶涷涸涹涺涻涼涽涾涿淀淁淂淃淄淅淆淇淈淉淊淋淌淍淎淏淐淑淒淓淔淕淖淗淘",
     "淙淚淛淜淝淞淟淠淡淢淣淤淥淦淧淨淩淪淫淬淭淮淯淰深淲淳淴淵淶混淸淹淺添淼淽淾淿満溁溂溃溄溅溆溇溈",
     "溉溊溋溌溍溎溏源溑溒溓溔溕準溗溘溙溚溛溜溝溞溟溠溡溢溣溤溥溦溧溨溩溪溫溬溭溮溯溰溱溲溳溴溵溶溷溸",
     "溹溺溻溼溽溾溿滀滁滂滃滄滅滆滇滈滉滊滋滌滍滎滏滐滑滒滓滔滕滖滗滘滙滚滛滜滝滞滟滠满滢滣滤滥滦滧滨",
     "滩滪滫滬滭滮滯滰滱滲滳滴滵滶滷滸滹滺滻滼滽滾滿澀澁澂澃澄澅澆澇澈澉澊澋澌澍澎澏澐澑澒澓澔澕澖澗澘",
     "澙澚澛澜澝澞澟澠澡澢澣澤澥澦澧澨澩澪澫澬澭澮澯澰澱澲澳澴澵澶澷澸澹澺澻澼澽澾澿激濁濂濃濄濅濆濇濈",
     "濉濊濋濌濍濎濏濐濑濒濓濔濕濖濗濘濙濚濛濜濝濞濟濠濡濢濣濤濥濦濧濨濩濪濫濬濭濮濯濰濱濲濳濴濵濶濷濸",
     "濹濺濻濼濽濾濿炀炁炂炃炄炅炆炇炈炉炊炋炌炍炎炏炐炑炒炓炔炕炖炗炘炙炚炛炜炝炞炟炠炡炢炣炤炥炦炧炨",
     "炩炪炫炬炭炮炯炰炱炲炳炴炵炶炷炸点為炻炼炽炾炿烀烁烂烃烄烅烆烇烈烉烊烋烌烍烎烏烐烑烒烓烔烕烖烗烘",
     "烙烚烛烜烝烞烟烠烡烢烣烤烥烦烧烨烩烪烫烬热烮烯烰烱烲烳烴烵烶烷烸烹烺烻烼烽烾烿熀熁熂熃熄熅熆熇熈",
     "熉熊熋熌熍熎熏熐熑熒熓熔熕熖熗熘熙熚熛熜熝熞熟熠熡熢熣熤熥熦熧熨熩熪熫熬熭熮熯熰熱熲熳熴熵熶熷熸",
     "熹熺熻熼熽熾熿燀燁燂燃燄燅燆燇燈燉燊燋燌燍燎燏燐燑燒燓燔燕燖燗燘燙燚燛燜燝燞營燠燡燢燣燤燥燦燧燨",
     "燩燪燫燬燭燮燯燰燱燲燳燴燵燶燷燸燹燺燻燼燽燾燿犀犁犂犃犄犅犆犇犈犉犊犋犌犍犎犏犐犑犒犓犔犕犖犗犘",
     "犙犚犛犜犝犞犟犠犡犢犣犤犥犦犧犨犩犪犫犬犭犮犯犰犱犲犳犴犵状犷犸犹犺犻犼犽犾犿狀狁狂狃狄狅狆狇狈",
     "狉狊狋狌狍狎狏狐狑狒狓狔狕狖狗狘狙狚狛狜狝狞狟狠狡狢狣狤狥狦狧狨狩狪狫独狭狮狯狰狱狲狳狴狵狶狷狸",
     "狹狺狻狼狽狾狿玀玁玂玃玄玅玆率玈玉玊王玌玍玎玏玐玑玒玓玔玕玖玗玘玙玚玛玜玝玞玟玠玡玢玣玤玥玦玧玨",
     "玩玪玫玬玭玮环现玱玲玳玴玵玶玷玸玹玺玻玼玽玾玿珀珁珂珃珄珅珆珇珈珉珊珋珌珍珎珏珐珑珒珓珔珕珖珗珘",
     "珙珚珛珜珝珞珟珠珡珢珣珤珥珦珧珨珩珪珫珬班珮珯珰珱珲珳珴珵珶珷珸珹珺珻珼珽現珿璀璁璂璃璄璅璆璇璈",
     "璉璊璋璌璍璎璏璐璑璒璓璔璕璖璗璘璙璚璛璜璝璞璟璠璡璢璣璤璥璦璧璨璩璪璫璬璭璮璯環璱璲璳璴璵璶璷璸",
     "璹璺璻璼璽璾璿瓀瓁瓂瓃瓄瓅瓆瓇瓈瓉瓊瓋瓌瓍瓎瓏瓐瓑瓒瓓瓔瓕瓖瓗瓘瓙瓚瓛瓜瓝瓞瓟瓠瓡瓢瓣瓤瓥瓦瓧瓨",
     "瓩瓪瓫瓬瓭瓮瓯瓰瓱瓲瓳瓴瓵瓶瓷瓸瓹瓺瓻瓼瓽瓾瓿疀疁疂疃疄疅疆疇疈疉疊疋疌疍疎疏疐疑疒疓疔疕疖疗疘",
     "疙疚疛疜疝疞疟疠疡疢疣疤疥疦疧疨疩疪疫疬疭疮疯疰疱疲疳疴疵疶疷疸疹疺疻疼疽疾疿痀痁痂痃痄病痆症痈",
     "痉痊痋痌痍痎痏痐痑痒痓痔痕痖痗痘痙痚痛痜痝痞痟痠痡痢痣痤痥痦痧痨痩痪痫痬痭痮痯痰痱痲痳痴痵痶痷痸",
     "痹痺痻痼痽痾痿皀皁皂皃的皅皆皇皈皉皊皋皌皍皎皏皐皑皒皓皔皕皖皗皘皙皚皛皜皝皞皟皠皡皢皣皤皥皦皧皨",
     "皩皪皫皬皭皮皯皰皱皲皳皴皵皶皷皸皹皺皻皼皽皾皿盀盁盂盃盄盅盆盇盈盉益盋盌盍盎盏盐监盒盓盔盕盖盗盘",
     "盙盚盛盜盝盞盟盠盡盢監盤盥盦盧盨盩盪盫盬盭目盯盰盱盲盳直盵盶盷相盹盺盻盼盽盾盿瞀瞁瞂瞃瞄瞅瞆瞇瞈",
     "瞉瞊瞋瞌瞍瞎瞏瞐瞑瞒瞓瞔瞕瞖瞗瞘瞙瞚瞛瞜瞝瞞瞟瞠瞡瞢瞣瞤瞥瞦瞧瞨瞩瞪瞫瞬瞭瞮瞯瞰瞱瞲瞳瞴瞵瞶瞷瞸",
     "瞹瞺瞻瞼瞽瞾瞿矀矁矂矃矄矅矆矇矈矉矊矋矌矍矎矏矐矑矒矓矔矕矖矗矘矙矚矛矜矝矞矟矠矡矢矣矤知矦矧矨",
     "矩矪矫矬短矮矯矰矱矲石矴矵矶矷矸矹矺矻矼矽矾矿碀碁碂碃碄碅碆碇碈碉碊碋碌碍碎碏碐碑碒碓碔碕碖碗碘",
     "碙碚碛碜碝碞碟碠碡碢碣碤碥碦碧碨碩碪碫碬碭碮碯碰碱碲碳碴碵碶碷碸碹確碻碼碽碾碿磀磁磂磃磄磅磆磇磈",
     "磉磊磋磌磍磎磏磐磑磒磓磔磕磖磗磘磙磚磛磜磝磞磟磠磡磢磣磤磥磦磧磨磩磪磫磬磭磮磯磰磱磲磳磴磵磶磷磸",
     "磹磺磻磼磽磾磿禀禁禂禃禄禅禆禇禈禉禊禋禌禍禎福禐禑禒禓禔禕禖禗禘禙禚禛禜禝禞禟禠禡禢禣禤禥禦禧禨",
     "禩禪禫禬禭禮禯禰禱禲禳禴禵禶禷禸禹禺离禼禽禾禿秀私秂秃秄秅秆秇秈秉秊秋秌种秎秏秐科秒秓秔秕秖秗秘",
     "秙秚秛秜秝秞租秠秡秢秣秤秥秦秧秨秩秪秫秬秭秮积称秱秲秳秴秵秶秷秸秹秺移秼秽秾秿窀突窂窃窄窅窆窇窈",
     "窉窊窋窌窍窎窏窐窑窒窓窔窕窖窗窘窙窚窛窜窝窞窟窠窡窢窣窤窥窦窧窨窩窪窫窬窭窮窯窰窱窲窳窴窵窶窷窸",
     "窹窺窻窼窽窾窿竀竁竂竃竄竅竆竇竈竉竊立竌竍竎竏竐竑竒竓竔竕竖竗竘站竚竛竜竝竞竟章竡竢竣竤童竦竧竨",
     "竩竪竫竬竭竮端竰竱竲竳竴竵競竷竸竹竺竻竼竽竾竿简箁箂箃箄箅箆箇箈箉箊箋箌箍箎箏箐箑箒箓箔箕箖算箘",
     "箙箚箛箜箝箞箟箠管箢箣箤箥箦箧箨箩箪箫箬箭箮箯箰箱箲箳箴箵箶箷箸箹箺箻箼箽箾箿節篁篂篃範篅篆篇篈",
     "築篊篋篌篍篎篏篐篑篒篓篔篕篖篗篘篙篚篛篜篝篞篟篠篡篢篣篤篥篦篧篨篩篪篫篬篭篮篯篰篱篲篳篴篵篶篷篸",
     "篹篺篻篼篽篾篿粀粁粂粃粄粅粆粇粈粉粊粋粌粍粎粏粐粑粒粓粔粕粖粗粘粙粚粛粜粝粞粟粠粡粢粣粤粥粦粧粨",
     "粩粪粫粬粭粮粯粰粱粲粳粴粵粶粷粸粹粺粻粼粽精粿糀糁糂糃糄糅糆糇糈糉糊糋糌糍糎糏糐糑糒糓糔糕糖糗糘",
     "糙糚糛糜糝糞糟糠糡糢糣糤糥糦糧糨糩糪糫糬糭糮糯糰糱糲糳糴糵糶糷糸糹糺系糼糽糾糿綀綁綂綃綄綅綆綇綈",
     "綉綊綋綌綍綎綏綐綑綒經綔綕綖綗綘継続綛綜綝綞綟綠綡綢綣綤綥綦綧綨綩綪綫綬維綮綯綰綱網綳綴綵綶綷綸",
     "綹綺綻綼綽綾綿緀緁緂緃緄緅緆緇緈緉緊緋緌緍緎総緐緑緒緓緔緕緖緗緘緙線緛緜緝緞緟締緡緢緣緤緥緦緧編",
     "緩緪緫緬緭緮緯緰緱緲緳練緵緶緷緸緹緺緻緼緽緾緿纀纁纂纃纄纅纆纇纈纉纊纋續纍纎纏纐纑纒纓纔纕纖纗纘",
     "纙纚纛纜纝纞纟纠纡红纣纤纥约级纨纩纪纫纬纭纮纯纰纱纲纳纴纵纶纷纸纹纺纻纼纽纾线绀绁绂练组绅细织终",
     "绉绊绋绌绍绎经绐绑绒结绔绕绖绗绘给绚绛络绝绞统绠绡绢绣绤绥绦继绨绩绪绫绬续绮绯绰绱绲绳维绵绶绷绸",
     "绹绺绻综绽绾绿羀羁羂羃羄羅羆羇羈羉羊羋羌羍美羏羐羑羒羓羔羕羖羗羘羙羚羛羜羝羞羟羠羡羢羣群羥羦羧羨",
     "義羪羫羬羭羮羯羰羱羲羳羴羵羶羷羸羹羺羻羼羽羾羿翀翁翂翃翄翅翆翇翈翉翊翋翌翍翎翏翐翑習翓翔翕翖翗翘",
     "翙翚翛翜翝翞翟翠翡翢翣翤翥翦翧翨翩翪翫翬翭翮翯翰翱翲翳翴翵翶翷翸翹翺翻翼翽翾翿肀肁肂肃肄肅肆肇肈",
     "肉肊肋肌肍肎肏肐肑肒肓肔肕肖肗肘肙肚肛肜肝肞肟肠股肢肣肤肥肦肧肨肩肪肫肬肭肮肯肰肱育肳肴肵肶肷肸",
     "肹肺肻肼肽肾肿胀胁胂胃胄胅胆胇胈胉胊胋背胍胎胏胐胑胒胓胔胕胖胗胘胙胚胛胜胝胞胟胠胡胢胣胤胥胦胧胨",
     "胩胪胫胬胭胮胯胰胱胲胳胴胵胶胷胸胹胺胻胼能胾胿膀膁膂膃膄膅膆膇膈膉膊膋膌膍膎膏膐膑膒膓膔膕膖膗膘",
     "膙膚膛膜膝膞膟膠膡膢膣膤膥膦膧膨膩膪膫膬膭膮膯膰膱膲膳膴膵膶膷膸膹膺膻膼膽膾膿臀臁臂臃臄臅臆臇臈",
     "臉臊臋臌臍臎臏臐臑臒臓臔臕臖臗臘臙臚臛臜臝臞臟臠臡臢臣臤臥臦臧臨臩自臫臬臭臮臯臰臱臲至致臵臶臷臸",
     "臹臺臻臼臽臾臿芀芁节芃芄芅芆芇芈芉芊芋芌芍芎芏芐芑芒芓芔芕芖芗芘芙芚芛芜芝芞芟芠芡芢芣芤芥芦芧芨",
     "芩芪芫芬芭芮芯芰花芲芳芴芵芶芷芸芹芺芻芼芽芾芿苀苁苂苃苄苅苆苇苈苉苊苋苌苍苎苏苐苑苒苓苔苕苖苗苘",
     "苙苚苛苜苝苞苟苠苡苢苣苤若苦苧苨苩苪苫苬苭苮苯苰英苲苳苴苵苶苷苸苹苺苻苼苽苾苿莀莁莂莃莄莅莆莇莈",
     "莉莊莋莌莍莎莏莐莑莒莓莔莕莖莗莘莙莚莛莜莝莞莟莠莡莢莣莤莥莦莧莨莩莪莫莬莭莮莯莰莱莲莳莴莵莶获莸",
     "莹莺莻莼莽莾莿菀菁菂菃菄菅菆菇菈菉菊菋菌菍菎菏菐菑菒菓菔菕菖菗菘菙菚菛菜菝菞菟菠菡菢菣菤菥菦菧菨",
     "菩菪菫菬菭菮華菰菱菲菳菴菵菶菷菸菹菺菻菼菽菾菿蒀蒁蒂蒃蒄蒅蒆蒇蒈蒉蒊蒋蒌蒍蒎蒏蒐蒑蒒蒓蒔蒕蒖蒗蒘",
     "蒙蒚蒛蒜蒝蒞蒟蒠蒡蒢蒣蒤蒥蒦蒧蒨蒩蒪蒫蒬蒭蒮蒯蒰蒱蒲蒳蒴蒵蒶蒷蒸蒹蒺蒻蒼蒽蒾蒿蓀蓁蓂蓃蓄蓅蓆蓇蓈",
     "蓉蓊蓋蓌蓍蓎蓏蓐蓑蓒蓓蓔蓕蓖蓗蓘蓙蓚蓛蓜蓝蓞蓟蓠蓡蓢蓣蓤蓥蓦蓧蓨蓩蓪蓫蓬蓭蓮蓯蓰蓱蓲蓳蓴蓵蓶蓷蓸",
     "蓹蓺蓻蓼蓽蓾蓿薀薁薂薃薄薅薆薇薈薉薊薋薌薍薎薏薐薑薒薓薔薕薖薗薘薙薚薛薜薝薞薟薠薡薢薣薤薥薦薧薨",
     "薩薪薫薬薭薮薯薰薱薲薳薴薵薶薷薸薹薺薻薼薽薾薿藀藁藂藃藄藅藆藇藈藉藊藋藌藍藎藏藐藑藒藓藔藕藖藗藘",
     "藙藚藛藜藝藞藟藠藡藢藣藤藥藦藧藨藩藪藫藬藭藮藯藰藱藲藳藴藵藶藷藸藹藺藻藼藽藾藿蚀蚁蚂蚃蚄蚅蚆蚇蚈",
     "蚉蚊蚋蚌蚍蚎蚏蚐蚑蚒蚓蚔蚕蚖蚗蚘蚙蚚蚛蚜蚝蚞蚟蚠蚡蚢蚣蚤蚥蚦蚧蚨蚩蚪蚫蚬蚭蚮蚯蚰蚱蚲蚳蚴蚵蚶蚷蚸",
     "蚹蚺蚻蚼蚽蚾蚿蛀蛁蛂蛃蛄蛅蛆蛇蛈蛉蛊蛋蛌蛍蛎蛏蛐蛑蛒蛓蛔蛕蛖蛗蛘蛙蛚蛛蛜蛝蛞蛟蛠蛡蛢蛣蛤蛥蛦蛧蛨",
     "蛩蛪蛫蛬蛭蛮蛯蛰蛱蛲蛳蛴蛵蛶蛷蛸蛹蛺蛻蛼蛽蛾蛿螀螁螂螃螄螅螆螇螈螉螊螋螌融螎螏螐螑螒螓螔螕螖螗螘",
     "螙螚螛螜螝螞螟螠螡螢螣螤螥螦螧螨螩螪螫螬螭螮螯螰螱螲螳螴螵螶螷螸螹螺螻螼螽螾螿蟀蟁蟂蟃蟄蟅蟆蟇蟈",
     "蟉蟊蟋蟌蟍蟎蟏蟐蟑蟒蟓蟔蟕蟖蟗蟘蟙蟚蟛蟜蟝蟞蟟蟠蟡蟢蟣蟤蟥蟦蟧蟨蟩蟪蟫蟬蟭蟮蟯蟰蟱蟲蟳蟴蟵蟶蟷蟸",
     "蟹蟺蟻蟼蟽蟾蟿袀袁袂袃袄袅袆袇袈袉袊袋袌袍袎袏袐袑袒袓袔袕袖袗袘袙袚袛袜袝袞袟袠袡袢袣袤袥袦袧袨",
     "袩袪被袬袭袮袯袰袱袲袳袴袵袶袷袸袹袺袻袼袽袾袿裀裁裂裃裄装裆裇裈裉裊裋裌裍裎裏裐裑裒裓裔裕裖裗裘",
     "裙裚裛補裝裞裟裠裡裢裣裤裥裦裧裨裩裪裫裬裭裮裯裰裱裲裳裴裵裶裷裸裹裺裻裼製裾裿覀要覂覃覄覅覆覇覈",
     "覉覊見覌覍覎規覐覑覒覓覔覕視覗覘覙覚覛覜覝覞覟覠覡覢覣覤覥覦覧覨覩親覫覬覭覮覯覰覱覲観覴覵覶覷覸",
     "覹覺覻覼覽覾覿觀见观觃规觅视觇览觉觊觋觌觍觎觏觐觑角觓觔觕觖觗觘觙觚觛觜觝觞觟觠觡觢解觤觥触觧觨",
     "觩觪觫觬觭觮觯觰觱觲觳觴觵觶觷觸觹觺觻觼觽觾觿誀誁誂誃誄誅誆誇誈誉誊誋誌認誎誏誐誑誒誓誔誕誖誗誘",
     "誙誚誛誜誝語誟誠誡誢誣誤誥誦誧誨誩說誫説読誮誯誰誱課誳誴誵誶誷誸誹誺誻誼誽誾調諀諁諂諃諄諅諆談諈",
     "諉諊請諌諍諎諏諐諑諒諓諔諕論諗諘諙諚諛諜諝諞諟諠諡諢諣諤諥諦諧諨諩諪諫諬諭諮諯諰諱諲諳諴諵諶諷諸",
     "諹諺諻諼諽諾諿讀讁讂讃讄讅讆讇讈讉變讋讌讍讎讏讐讑讒讓讔讕讖讗讘讙讚讛讜讝讞讟讠计订讣认讥讦讧讨",
     "让讪讫讬训议讯记讱讲讳讴讵讶讷许讹论讻讼讽设访诀证诂诃评诅识诇诈诉诊诋诌词诎诏诐译诒诓诔试诖诗诘",
     "诙诚诛诜话诞诟诠诡询诣诤该详诧诨诩诪诫诬语诮误诰诱诲诳说诵诶请诸诹诺读诼诽课诿貀貁貂貃貄貅貆貇貈",
     "貉貊貋貌貍貎貏貐貑貒貓貔貕貖貗貘貙貚貛貜貝貞貟負財貢貣貤貥貦貧貨販貪貫責貭貮貯貰貱貲貳貴貵貶買貸",
     "貹貺費貼貽貾貿賀賁賂賃賄賅賆資賈賉賊賋賌賍賎賏賐賑賒賓賔賕賖賗賘賙賚賛賜賝賞賟賠賡賢賣賤賥賦賧賨",
     "賩質賫賬賭賮賯賰賱賲賳賴賵賶賷賸賹賺賻購賽賾賿趀趁趂趃趄超趆趇趈趉越趋趌趍趎趏趐趑趒趓趔趕趖趗趘",
     "趙趚趛趜趝趞趟趠趡趢趣趤趥趦趧趨趩趪趫趬趭趮趯趰趱趲足趴趵趶趷趸趹趺趻趼趽趾趿跀跁跂跃跄跅跆跇跈",
     "跉跊跋跌跍跎跏跐跑跒跓跔跕跖跗跘跙跚跛跜距跞跟跠跡跢跣跤跥跦跧跨跩跪跫跬跭跮路跰跱跲跳跴践跶跷跸",
     "跹跺跻跼跽跾跿躀躁躂躃躄躅躆躇躈躉躊躋躌躍躎躏躐躑躒躓躔躕躖躗躘躙躚躛躜躝躞躟躠躡躢躣躤躥躦躧躨",
     "躩躪身躬躭躮躯躰躱躲躳躴躵躶躷躸躹躺躻躼躽躾躿軀軁軂軃軄軅軆軇軈軉車軋軌軍軎軏軐軑軒軓軔軕軖軗軘",
     "軙軚軛軜軝軞軟軠軡転軣軤軥軦軧軨軩軪軫軬軭軮軯軰軱軲軳軴軵軶軷軸軹軺軻軼軽軾軿辀辁辂较辄辅辆辇辈",
     "辉辊辋辌辍辎辏辐辑辒输辔辕辖辗辘辙辚辛辜辝辞辟辠辡辢辣辤辥辦辧辨辩辪辫辬辭辮辯辰辱農辳辴辵辶辷辸",
     "边辺辻込辽达辿迀迁迂迃迄迅迆过迈迉迊迋迌迍迎迏运近迒迓返迕迖迗还这迚进远违连迟迠迡迢迣迤迥迦迧迨",
     "迩迪迫迬迭迮迯述迱迲迳迴迵迶迷迸迹迺迻迼追迾迿邀邁邂邃還邅邆邇邈邉邊邋邌邍邎邏邐邑邒邓邔邕邖邗邘",
     "邙邚邛邜邝邞邟邠邡邢那邤邥邦邧邨邩邪邫邬邭邮邯邰邱邲邳邴邵邶邷邸邹邺邻邼邽邾邿郀郁郂郃郄郅郆郇郈",
     "郉郊郋郌郍郎郏郐郑郒郓郔郕郖郗郘郙郚郛郜郝郞郟郠郡郢郣郤郥郦郧部郩郪郫郬郭郮郯郰郱郲郳郴郵郶郷郸",
     "郹郺郻郼都郾郿醀醁醂醃醄醅醆醇醈醉醊醋醌醍醎醏醐醑醒醓醔醕醖醗醘醙醚醛醜醝醞醟醠醡醢醣醤醥醦醧醨",
     "醩醪醫醬醭醮醯醰醱醲醳醴醵醶醷醸醹醺醻醼醽醾醿釀釁釂釃釄釅釆采釈釉释釋里重野量釐金釒釓釔釕釖釗釘",
     "釙釚釛釜針釞釟釠釡釢釣釤釥釦釧釨釩釪釫釬釭釮釯釰釱釲釳釴釵釶釷釸釹釺釻釼釽釾釿銀銁銂銃銄銅銆銇銈",
     "銉銊銋銌銍銎銏銐銑銒銓銔銕銖銗銘銙銚銛銜銝銞銟銠銡銢銣銤銥銦銧銨銩銪銫銬銭銮銯銰銱銲銳銴銵銶銷銸",
     "銹銺銻銼銽銾銿鋀鋁鋂鋃鋄鋅鋆鋇鋈鋉鋊鋋鋌鋍鋎鋏鋐鋑鋒鋓鋔鋕鋖鋗鋘鋙鋚鋛鋜鋝鋞鋟鋠鋡鋢鋣鋤鋥鋦鋧鋨",
     "鋩鋪鋫鋬鋭鋮鋯鋰鋱鋲鋳鋴鋵鋶鋷鋸鋹鋺鋻鋼鋽鋾鋿鎀鎁鎂鎃鎄鎅鎆鎇鎈鎉鎊鎋鎌鎍鎎鎏鎐鎑鎒鎓鎔鎕鎖鎗鎘",
     "鎙鎚鎛鎜鎝鎞鎟鎠鎡鎢鎣鎤鎥鎦鎧鎨鎩鎪鎫鎬鎭鎮鎯鎰鎱鎲鎳鎴鎵鎶鎷鎸鎹鎺鎻鎼鎽鎾鎿鏀鏁鏂鏃鏄鏅鏆鏇鏈",
     "鏉鏊鏋鏌鏍鏎鏏鏐鏑鏒鏓鏔鏕鏖鏗鏘鏙鏚鏛鏜鏝鏞鏟鏠鏡鏢鏣鏤鏥鏦鏧鏨鏩鏪鏫鏬鏭鏮鏯鏰鏱鏲鏳鏴鏵鏶鏷鏸",
     "鏹鏺鏻鏼鏽鏾鏿钀钁钂钃钄钅钆钇针钉钊钋钌钍钎钏钐钑钒钓钔钕钖钗钘钙钚钛钜钝钞钟钠钡钢钣钤钥钦钧钨",
     "钩钪钫钬钭钮钯钰钱钲钳钴钵钶钷钸钹钺钻钼钽钾钿铀铁铂铃铄铅铆铇铈铉铊铋铌铍铎铏铐铑铒铓铔铕铖铗铘",
     "铙铚铛铜铝铞铟铠铡铢铣铤铥铦铧铨铩铪铫铬铭铮铯铰铱铲铳铴铵银铷铸铹铺铻铼铽链铿門閁閂閃閄閅閆閇閈",
     "閉閊開閌閍閎閏閐閑閒間閔閕閖閗閘閙閚閛閜閝閞閟閠閡関閣閤閥閦閧閨閩閪閫閬閭閮閯閰閱閲閳閴閵閶閷閸",
     "閹閺閻閼閽閾閿闀闁闂闃闄闅闆闇闈闉闊闋闌闍闎闏闐闑闒闓闔闕闖闗闘闙闚闛關闝闞闟闠闡闢闣闤闥闦闧门",
     "闩闪闫闬闭问闯闰闱闲闳间闵闶闷闸闹闺闻闼闽闾闿隀隁隂隃隄隅隆隇隈隉隊隋隌隍階随隐隑隒隓隔隕隖隗隘",
     "隙隚際障隝隞隟隠隡隢隣隤隥隦隧隨隩險隫隬隭隮隯隰隱隲隳隴隵隶隷隸隹隺隻隼隽难隿雀雁雂雃雄雅集雇雈",
     "雉雊雋雌雍雎雏雐雑雒雓雔雕雖雗雘雙雚雛雜雝雞雟雠雡離難雤雥雦雧雨雩雪雫雬雭雮雯雰雱雲雳雴雵零雷雸",
     "雹雺電雼雽雾雿鞀鞁鞂鞃鞄鞅鞆鞇鞈鞉鞊鞋鞌鞍鞎鞏鞐鞑鞒鞓鞔鞕鞖鞗鞘鞙鞚鞛鞜鞝鞞鞟鞠鞡鞢鞣鞤鞥鞦鞧鞨",
     "鞩鞪鞫鞬鞭鞮鞯鞰鞱鞲鞳鞴鞵鞶鞷鞸鞹鞺鞻鞼鞽鞾鞿韀韁韂韃韄韅韆韇韈韉韊韋韌韍韎韏韐韑韒韓韔韕韖韗韘",
     "韙韚韛韜韝韞韟韠韡韢韣韤韥韦韧韨韩韪韫韬韭韮韯韰韱韲音韴韵韶韷韸韹韺韻韼韽韾響颀颁颂颃预颅领颇颈",
     "颉颊颋颌颍颎颏颐频颒颓颔颕颖颗题颙颚颛颜额颞颟颠颡颢颣颤颥颦颧風颩颪颫颬颭颮颯颰颱颲颳颴颵颶颷颸",
     "颹颺颻颼颽颾颿飀飁飂飃飄飅飆飇飈飉飊飋飌飍风飏飐飑飒飓飔飕飖飗飘飙飚飛飜飝飞食飠飡飢飣飤飥飦飧飨",
     "飩飪飫飬飭飮飯飰飱飲飳飴飵飶飷飸飹飺飻飼飽飾飿馀馁馂馃馄馅馆馇馈馉馊馋馌馍馎馏馐馑馒馓馔馕首馗馘",
     "香馚馛馜馝馞馟馠馡馢馣馤馥馦馧馨馩馪馫馬馭馮馯馰馱馲馳馴馵馶馷馸馹馺馻馼馽馾馿駀駁駂駃駄駅駆駇駈",
     "駉駊駋駌駍駎駏駐駑駒駓駔駕駖駗駘駙駚駛駜駝駞駟駠駡駢駣駤駥駦駧駨駩駪駫駬駭駮駯駰駱駲駳駴駵駶駷駸",
     "駹駺駻駼駽駾駿骀骁骂骃骄骅骆骇骈骉骊骋验骍骎骏骐骑骒骓骔骕骖骗骘骙骚骛骜骝骞骟骠骡骢骣骤骥骦骧骨",
     "骩骪骫骬骭骮骯骰骱骲骳骴骵骶骷骸骹骺骻骼骽骾骿髀髁髂髃髄髅髆髇髈髉髊髋髌髍髎髏髐髑髒髓體髕髖髗高",
     "髙髚髛髜髝髞髟髠髡髢髣髤髥髦髧髨髩髪髫髬髭髮髯髰髱髲髳髴髵髶髷髸髹髺髻髼髽髾髿鮀鮁鮂鮃鮄鮅鮆鮇鮈",
     "鮉鮊鮋鮌鮍鮎鮏鮐鮑鮒鮓鮔鮕鮖鮗鮘鮙鮚鮛鮜鮝鮞鮟鮠鮡鮢鮣鮤鮥鮦鮧鮨鮩鮪鮫鮬鮭鮮鮯鮰鮱鮲鮳鮴鮵鮶鮷鮸",
     "鮹鮺鮻鮼鮽鮾鮿鯀鯁鯂鯃鯄鯅鯆鯇鯈鯉鯊鯋鯌鯍鯎鯏鯐鯑鯒鯓鯔鯕鯖鯗鯘鯙鯚鯛鯜鯝鯞鯟鯠鯡鯢鯣鯤鯥鯦鯧鯨",
     "鯩鯪鯫鯬鯭鯮鯯鯰鯱鯲鯳鯴鯵鯶鯷鯸鯹鯺鯻鯼鯽鯾鯿鲀鲁鲂鲃鲄鲅鲆鲇鲈鲉鲊鲋鲌鲍鲎鲏鲐鲑鲒鲓鲔鲕鲖鲗鲘",
     "鲙鲚鲛鲜鲝鲞鲟鲠鲡鲢鲣鲤鲥鲦鲧鲨鲩鲪鲫鲬鲭鲮鲯鲰鲱鲲鲳鲴鲵鲶鲷鲸鲹鲺鲻鲼鲽鲾鲿鳀鳁鳂鳃鳄鳅鳆鳇鳈",
     "鳉鳊鳋鳌鳍鳎鳏鳐鳑鳒鳓鳔鳕鳖鳗鳘鳙鳚鳛鳜鳝鳞鳟鳠鳡鳢鳣鳤鳥鳦鳧鳨鳩鳪鳫鳬鳭鳮鳯鳰鳱鳲鳳鳴鳵鳶鳷鳸",
     "鳹鳺鳻鳼鳽鳾鳿鶀鶁鶂鶃鶄鶅鶆鶇鶈鶉鶊鶋鶌鶍鶎鶏鶐鶑鶒鶓鶔鶕鶖鶗鶘鶙鶚鶛鶜鶝鶞鶟鶠鶡鶢鶣鶤鶥鶦鶧鶨",
     "鶩鶪鶫鶬鶭鶮鶯鶰鶱鶲鶳鶴鶵鶶鶷鶸鶹鶺鶻鶼鶽鶾鶿鷀鷁鷂鷃鷄鷅鷆鷇鷈鷉鷊鷋鷌鷍鷎鷏鷐鷑鷒鷓鷔鷕鷖鷗鷘",
     "鷙鷚鷛鷜鷝鷞鷟鷠鷡鷢鷣鷤鷥鷦鷧鷨鷩鷪鷫鷬鷭鷮鷯鷰鷱鷲鷳鷴鷵鷶鷷鷸鷹鷺鷻鷼鷽鷾鷿麀麁麂麃麄麅麆麇麈",
     "麉麊麋麌麍麎麏麐麑麒麓麔麕麖麗麘麙麚麛麜麝麞麟麠麡麢麣麤麥麦麧麨麩麪麫麬麭麮麯麰麱麲麳麴麵麶麷麸",
     "麹麺麻麼麽麾麿黀黁黂黃黄黅黆黇黈黉黊黋黌黍黎黏黐黑黒黓黔黕黖黗默黙黚黛黜黝點黟黠黡黢黣黤黥黦黧黨",
     "黩黪黫黬黭黮黯黰黱黲黳黴黵黶黷黸黹黺黻黼黽黾黿龀龁龂龃龄龅龆龇龈龉龊龋龌龍龎龏龐龑龒龓龔龕龖龗龘",
     "龙龚龛龜龝龞龟龠龡龢龣龤龥龦龧龨龩龪龫龬龭龮龯龰龱龲龳龴龵龶龷龸龹龺龻龼龽龾龿鿀鿁鿂鿃鿄鿅鿆鿇鿈",
     "鿉鿊鿋鿌鿍鿎鿏鿐鿑鿒鿓鿔鿕鿖鿗鿘鿙鿚鿛鿜鿝鿞鿟鿠鿡鿢鿣鿤鿥鿦鿧鿨鿩鿪鿫鿬鿭鿮鿯鿰鿱鿲鿳鿴鿵鿶鿷鿸",
     "鿹鿺鿻鿼鿽鿾鿿ꂀꂁꂂꂃꂄꂅꂆꂇꂈꂉꂊꂋꂌꂍꂎꂏꂐꂑꂒꂓꂔꂕꂖꂗꂘꂙꂚꂛꂜꂝꂞꂟꂠꂡꂢꂣꂤꂥꂦꂧꂨ",
     "ꂩꂪꂫꂬꂭꂮꂯꂰꂱꂲꂳꂴꂵꂶꂷꂸꂹꂺꂻꂼꂽꂾꂿꃀꃁꃂꃃꃄꃅꃆꃇꃈꃉꃊꃋꃌꃍꃎꃏꃐꃑꃒꃓꃔꃕꃖꃗꃘ",
     "ꃙꃚꃛꃜꃝꃞꃟꃠꃡꃢꃣꃤꃥꃦꃧꃨꃩꃪꃫꃬꃭꃮꃯꃰꃱꃲꃳꃴꃵꃶꃷꃸꃹꃺꃻꃼꃽꃾꃿꆀꆁꆂꆃꆄꆅꆆꆇꆈ",
     "ꆉꆊꆋꆌꆍꆎꆏꆐꆑꆒꆓꆔꆕꆖꆗꆘꆙꆚꆛꆜꆝꆞꆟꆠꆡꆢꆣꆤꆥꆦꆧꆨꆩꆪꆫꆬꆭꆮꆯꆰꆱꆲꆳꆴꆵꆶꆷꆸ",
     "ꆹꆺꆻꆼꆽꆾꆿꇀꇁꇂꇃꇄꇅꇆꇇꇈꇉꇊꇋꇌꇍꇎꇏꇐꇑꇒꇓꇔꇕꇖꇗꇘꇙꇚꇛꇜꇝꇞꇟꇠꇡꇢꇣꇤꇥꇦꇧꇨ",
     "ꇩꇪꇫꇬꇭꇮꇯꇰꇱꇲꇳꇴꇵꇶꇷꇸꇹꇺꇻꇼꇽꇾꇿꊀꊁꊂꊃꊄꊅꊆꊇꊈꊉꊊꊋꊌꊍꊎꊏꊐꊑꊒꊓꊔꊕꊖꊗꊘ",
     "ꊙꊚꊛꊜꊝꊞꊟꊠꊡꊢꊣꊤꊥꊦꊧꊨꊩꊪꊫꊬꊭꊮꊯꊰꊱꊲꊳꊴꊵꊶꊷꊸꊹꊺꊻꊼꊽꊾꊿꋀꋁꋂꋃꋄꋅꋆꋇꋈ",
     "ꋉꋊꋋꋌꋍꋎꋏꋐꋑꋒꋓꋔꋕꋖꋗꋘꋙꋚꋛꋜꋝꋞꋟꋠꋡꋢꋣꋤꋥꋦꋧꋨꋩꋪꋫꋬꋭꋮꋯꋰꋱꋲꋳꋴꋵꋶꋷꋸ",
     "ꋹꋺꋻꋼꋽꋾꋿꎀꎁꎂꎃꎄꎅꎆꎇꎈꎉꎊꎋꎌꎍꎎꎏꎐꎑꎒꎓꎔꎕꎖꎗꎘꎙꎚꎛꎜꎝꎞꎟꎠꎡꎢꎣꎤꎥꎦꎧꎨ",
     "ꎩꎪꎫꎬꎭꎮꎯꎰꎱꎲꎳꎴꎵꎶꎷꎸꎹꎺꎻꎼꎽꎾꎿꏀꏁꏂꏃꏄꏅꏆꏇꏈꏉꏊꏋꏌꏍꏎꏏꏐꏑꏒꏓꏔꏕꏖꏗꏘ",
     "ꏙꏚꏛꏜꏝꏞꏟꏠꏡꏢꏣꏤꏥꏦꏧꏨꏩꏪꏫꏬꏭꏮꏯꏰꏱꏲꏳꏴꏵꏶꏷꏸꏹꏺꏻꏼꏽꏾꏿꒀꒁꒂꒃꒄꒅꒆꒇꒈ",
     "ꒉꒊꒋꒌꓐꓑꓒꓓꓔꓕꓖꓗꓘꓙꓚꓛꓜꓝꓞꓟꓠꓡꓢꓣꓤꓥꓦꓧꓨꓩꓪꓫꓬꓭꓮꓯꓰꓱꓲꓳꓴꓵꓶꓷꓸꓹꓺꓻ",
     "ꓼꓽꖀꖁꖂꖃꖄꖅꖆꖇꖈꖉꖊꖋꖌꖍꖎꖏꖐꖑꖒꖓꖔꖕꖖꖗꖘꖙꖚꖛꖜꖝꖞꖟꖠꖡꖢꖣꖤꖥꖦꖧꖨꖩꖪꖫꖬꖭ",
     "ꖮꖯꖰꖱꖲꖳꖴꖵꖶꖷꖸꖹꖺꖻꖼꖽꖾꖿꗀꗁꗂꗃꗄꗅꗆꗇꗈꗉꗊꗋꗌꗍꗎꗏꗐꗑꗒꗓꗔꗕꗖꗗꗘꗙꗚꗛꗜꗝ",
     "ꗞꗟꗠꗡꗢꗣꗤꗥꗦꗧꗨꗩꗪꗫꗬꗭꗮꗯꗰꗱꗲꗳꗴꗵꗶꗷꗸꗹꗺꗻꗼꗽꗾꗿꚀꚁꚂꚃꚄꚅꚆꚇꚈꚉꚊꚋꚌꚍ",
     "ꚎꚏꚐꚑꚒꚓꚔꚕꚖꚗꚘꚙꚚꚛꚜꚝꚠꚡꚢꚣꚤꚥꚦꚧꚨꚩꚪꚫꚬꚭꚮꚯꚰꚱꚲꚳꚴꚵꚶꚷꚸꚹꚺꚻꚼꚽꚾꚿ",
     "ꛀꛁꛂꛃꛄꛅꛆꛇꛈꛉꛊꛋꛌꛍꛎꛏꛐꛑꛒꛓꛔꛕꛖꛗꛘꛙꛚꛛꛜꛝꛞꛟꛠꛡꛢꛣꛤꛥꞀꞁꞂꞃꞄꞅꞆꞇꞈꞋ",
     "ꞌꞍꞎꞏꞐꞑꞒꞓꞔꞕꞖꞗꞘꞙꞚꞛꞜꞝꞞꞟꞠꞡꞢꞣꞤꞥꞦꞧꞨꞩꞪꞫꞬꞭꞮꞯꞰꞱꞲꞳꞴꞵꞶꞷꞸꞹꞺꞻ",
     "ꞼꞽꞾꞿꟀꟁꟂꟃꟄꟅꟆꟇꟈꟉꟊꟐꟑꟓꟕꟖꟗꟘꟙꟲꟳꟴꟵꟶꟷꟸꟹꟺꟻꟼꟽꟾꟿꢂꢃꢄꢅꢆꢇꢈꢉꢊꢋꢌ",
     "ꢍꢎꢏꢐꢑꢒꢓꢔꢕꢖꢗꢘꢙꢚꢛꢜꢝꢞꢟꢠꢡꢢꢣꢤꢥꢦꢧꢨꢩꢪꢫꢬꢭꢮꢯꢰꢱꢲꢳꣲꣳꣴꣵꣶꣷꣻꣽꣾ",
     "ꦄꦅꦆꦇꦈꦉꦊꦋꦌꦍꦎꦏꦐꦑꦒꦓꦔꦕꦖꦗꦘꦙꦚꦛꦜꦝꦞꦟꦠꦡꦢꦣꦤꦥꦦꦧꦨꦩꦪꦫꦬꦭꦮꦯꦰꦱꦲꧏ",
     "ꧠꧡꧢꧣꧤꧦꧧꧨꧩꧪꧫꧬꧭꧮꧯꧺꧻꧼꧽꧾꪀꪁꪂꪃꪄꪅꪆꪇꪈꪉꪊꪋꪌꪍꪎꪏꪐꪑꪒꪓꪔꪕꪖꪗꪘꪙꪚꪛ",
     "ꪜꪝꪞꪟꪠꪡꪢꪣꪤꪥꪦꪧꪨꪩꪪꪫꪬꪭꪮꪯꪱꪵꪶꪹꪺꪻꪼꪽꫀꫂꫛꫜꫝꫠꫡꫢꫣꫤꫥꫦꫧꫨꫩꫪꫲꫳꫴꮀ",
     "ꮁꮂꮃꮄꮅꮆꮇꮈꮉꮊꮋꮌꮍꮎꮏꮐꮑꮒꮓꮔꮕꮖꮗꮘꮙꮚꮛꮜꮝꮞꮟꮠꮡꮢꮣꮤꮥꮦꮧꮨꮩꮪꮫꮬꮭꮮꮯꮰ",
     "ꮱꮲꮳꮴꮵꮶꮷꮸꮹꮺꮻꮼꮽꮾꮿꯀꯁꯂꯃꯄꯅꯆꯇꯈꯉꯊꯋꯌꯍꯎꯏꯐꯑꯒꯓꯔꯕꯖꯗꯘꯙꯚꯛꯜꯝꯞꯟꯠ",
     "ꯡꯢ검겁겂것겄겅겆겇겈겉겊겋게겍겎겏겐겑겒겓겔겕겖겗겘겙겚겛겜겝겞겟겠겡겢겣겤겥겦겧겨격겪겫견겭",
     "겮겯결겱겲겳겴겵겶겷겸겹겺겻겼경겾겿곀곁곂곃계곅곆곇곈곉곊곋곌곍곎곏곐곑곒곓곔곕곖곗곘곙곚곛곜곝",
     "곞곟고곡곢곣곤곥곦곧골곩곪곫곬곭곮곯곰곱곲곳곴공곶곷곸곹곺곻과곽곾곿궀궁궂궃궄궅궆궇궈궉궊궋권궍",
     "궎궏궐궑궒궓궔궕궖궗궘궙궚궛궜궝궞궟궠궡궢궣궤궥궦궧궨궩궪궫궬궭궮궯궰궱궲궳궴궵궶궷궸궹궺궻궼궽",
     "궾궿귀귁귂귃귄귅귆귇귈귉귊귋귌귍귎귏귐귑귒귓귔귕귖귗귘귙귚귛규귝귞귟균귡귢귣귤귥귦귧귨귩귪귫귬귭",
     "귮귯귰귱귲귳귴귵귶귷그극귺귻근귽귾귿꺀꺁꺂꺃꺄꺅꺆꺇꺈꺉꺊꺋꺌꺍꺎꺏꺐꺑꺒꺓꺔꺕꺖꺗꺘꺙꺚꺛꺜꺝",
     "꺞꺟꺠꺡꺢꺣꺤꺥꺦꺧꺨꺩꺪꺫꺬꺭꺮꺯꺰꺱꺲꺳꺴꺵꺶꺷꺸꺹꺺꺻꺼꺽꺾꺿껀껁껂껃껄껅껆껇껈껉껊껋껌껍",
     "껎껏껐껑껒껓껔껕껖껗께껙껚껛껜껝껞껟껠껡껢껣껤껥껦껧껨껩껪껫껬껭껮껯껰껱껲껳껴껵껶껷껸껹껺껻껼껽",
     "껾껿꾀꾁꾂꾃꾄꾅꾆꾇꾈꾉꾊꾋꾌꾍꾎꾏꾐꾑꾒꾓꾔꾕꾖꾗꾘꾙꾚꾛꾜꾝꾞꾟꾠꾡꾢꾣꾤꾥꾦꾧꾨꾩꾪꾫꾬꾭",
     "꾮꾯꾰꾱꾲꾳꾴꾵꾶꾷꾸꾹꾺꾻꾼꾽꾾꾿꿀꿁꿂꿃꿄꿅꿆꿇꿈꿉꿊꿋꿌꿍꿎꿏꿐꿑꿒꿓꿔꿕꿖꿗꿘꿙꿚꿛꿜꿝",
     "꿞꿟꿠꿡꿢꿣꿤꿥꿦꿧꿨꿩꿪꿫꿬꿭꿮꿯꿰꿱꿲꿳꿴꿵꿶꿷꿸꿹꿺꿻꿼꿽꿾꿿낀낁낂낃낄낅낆낇낈낉낊낋낌낍",
     "낎낏낐낑낒낓낔낕낖낗나낙낚낛난낝낞낟날낡낢낣낤낥낦낧남납낪낫났낭낮낯낰낱낲낳내낵낶낷낸낹낺낻낼낽",
     "낾낿냀냁냂냃냄냅냆냇냈냉냊냋냌냍냎냏냐냑냒냓냔냕냖냗냘냙냚냛냜냝냞냟냠냡냢냣냤냥냦냧냨냩냪냫냬냭",
     "냮냯냰냱냲냳냴냵냶냷냸냹냺냻냼냽냾냿놀놁놂놃놄놅놆놇놈놉놊놋놌농놎놏놐놑높놓놔놕놖놗놘놙놚놛놜놝",
     "놞놟놠놡놢놣놤놥놦놧놨놩놪놫놬놭놮놯놰놱놲놳놴놵놶놷놸놹놺놻놼놽놾놿뇀뇁뇂뇃뇄뇅뇆뇇뇈뇉뇊뇋뇌뇍",
     "뇎뇏뇐뇑뇒뇓뇔뇕뇖뇗뇘뇙뇚뇛뇜뇝뇞뇟뇠뇡뇢뇣뇤뇥뇦뇧뇨뇩뇪뇫뇬뇭뇮뇯뇰뇱뇲뇳뇴뇵뇶뇷뇸뇹뇺뇻뇼뇽",
     "뇾뇿늀늁늂늃늄늅늆늇늈늉늊늋늌늍늎늏느늑늒늓는늕늖늗늘늙늚늛늜늝늞늟늠늡늢늣늤능늦늧늨늩늪늫늬늭",
     "늮늯늰늱늲늳늴늵늶늷늸늹늺늻늼늽늾늿닀닁닂닃닄닅닆닇니닉닊닋닌닍닎닏닐닑닒닓닔닕닖닗님닙닚닛닜닝",
     "닞닟닠닡닢닣다닥닦닧단닩닪닫달닭닮닯닰닱닲닳담답닶닷닸당닺닻닼닽닾닿뎀뎁뎂뎃뎄뎅뎆뎇뎈뎉뎊뎋뎌뎍",
     "뎎뎏뎐뎑뎒뎓뎔뎕뎖뎗뎘뎙뎚뎛뎜뎝뎞뎟뎠뎡뎢뎣뎤뎥뎦뎧뎨뎩뎪뎫뎬뎭뎮뎯뎰뎱뎲뎳뎴뎵뎶뎷뎸뎹뎺뎻뎼뎽",
     "뎾뎿돀돁돂돃도독돆돇돈돉돊돋돌돍돎돏돐돑돒돓돔돕돖돗돘동돚돛돜돝돞돟돠돡돢돣돤돥돦돧돨돩돪돫돬돭",
     "돮돯돰돱돲돳돴돵돶돷돸돹돺돻돼돽돾돿뒀뒁뒂뒃뒄뒅뒆뒇뒈뒉뒊뒋뒌뒍뒎뒏뒐뒑뒒뒓뒔뒕뒖뒗뒘뒙뒚뒛뒜뒝",
     "뒞뒟뒠뒡뒢뒣뒤뒥뒦뒧뒨뒩뒪뒫뒬뒭뒮뒯뒰뒱뒲뒳뒴뒵뒶뒷뒸뒹뒺뒻뒼뒽뒾뒿듀듁듂듃듄듅듆듇듈듉듊듋듌듍",
     "듎듏듐듑듒듓듔듕듖듗듘듙듚듛드득듞듟든듡듢듣들듥듦듧듨듩듪듫듬듭듮듯듰등듲듳듴듵듶듷듸듹듺듻듼듽",
     "듾듿떀떁떂떃떄떅떆떇떈떉떊떋떌떍떎떏떐떑떒떓떔떕떖떗떘떙떚떛떜떝떞떟떠떡떢떣떤떥떦떧떨떩떪떫떬떭",
     "떮떯떰떱떲떳떴떵떶떷떸떹떺떻떼떽떾떿뗀뗁뗂뗃뗄뗅뗆뗇뗈뗉뗊뗋뗌뗍뗎뗏뗐뗑뗒뗓뗔뗕뗖뗗뗘뗙뗚뗛뗜뗝",
     "뗞뗟뗠뗡뗢뗣뗤뗥뗦뗧뗨뗩뗪뗫뗬뗭뗮뗯뗰뗱뗲뗳뗴뗵뗶뗷뗸뗹뗺뗻뗼뗽뗾뗿뚀뚁뚂뚃뚄뚅뚆뚇뚈뚉뚊뚋뚌뚍",
     "뚎뚏뚐뚑뚒뚓뚔뚕뚖뚗뚘뚙뚚뚛뚜뚝뚞뚟뚠뚡뚢뚣뚤뚥뚦뚧뚨뚩뚪뚫뚬뚭뚮뚯뚰뚱뚲뚳뚴뚵뚶뚷뚸뚹뚺뚻뚼뚽",
     "뚾뚿뛀뛁뛂뛃뛄뛅뛆뛇뛈뛉뛊뛋뛌뛍뛎뛏뛐뛑뛒뛓뛔뛕뛖뛗뛘뛙뛚뛛뛜뛝뛞뛟뛠뛡뛢뛣뛤뛥뛦뛧뛨뛩뛪뛫뛬뛭",
     "뛮뛯뛰뛱뛲뛳뛴뛵뛶뛷뛸뛹뛺뛻뛼뛽뛾뛿란랁랂랃랄랅랆랇랈랉랊랋람랍랎랏랐랑랒랓랔랕랖랗래랙랚랛랜랝",
     "랞랟랠랡랢랣랤랥랦랧램랩랪랫랬랭랮랯랰랱랲랳랴략랶랷랸랹랺랻랼랽랾랿럀럁럂럃럄럅럆럇럈량럊럋럌럍",
     "럎럏럐럑럒럓럔럕럖럗럘럙럚럛럜럝럞럟럠럡럢럣럤럥럦럧럨럩럪럫러럭럮럯런럱럲럳럴럵럶럷럸럹럺럻럼럽",
     "럾럿뢀뢁뢂뢃뢄뢅뢆뢇뢈뢉뢊뢋뢌뢍뢎뢏뢐뢑뢒뢓뢔뢕뢖뢗뢘뢙뢚뢛뢜뢝뢞뢟뢠뢡뢢뢣뢤뢥뢦뢧뢨뢩뢪뢫뢬뢭",
     "뢮뢯뢰뢱뢲뢳뢴뢵뢶뢷뢸뢹뢺뢻뢼뢽뢾뢿룀룁룂룃룄룅룆룇룈룉룊룋료룍룎룏룐룑룒룓룔룕룖룗룘룙룚룛룜룝",
     "룞룟룠룡룢룣룤룥룦룧루룩룪룫룬룭룮룯룰룱룲룳룴룵룶룷룸룹룺룻룼룽룾룿릀릁릂릃름릅릆릇릈릉릊릋릌릍",
     "릎릏릐릑릒릓릔릕릖릗릘릙릚릛릜릝릞릟릠릡릢릣릤릥릦릧릨릩릪릫리릭릮릯린릱릲릳릴릵릶릷릸릹릺릻림립",
     "릾릿맀링맂맃맄맅맆맇마막맊맋만맍많맏말맑맒맓맔맕맖맗맘맙맚맛맜망맞맟맠맡맢맣매맥맦맧맨맩맪맫맬맭",
     "맮맯맰맱맲맳맴맵맶맷맸맹맺맻맼맽맾맿몀몁몂몃몄명몆몇몈몉몊몋몌몍몎몏몐몑몒몓몔몕몖몗몘몙몚몛몜몝",
     "몞몟몠몡몢몣몤몥몦몧모목몪몫몬몭몮몯몰몱몲몳몴몵몶몷몸몹몺못몼몽몾몿뫀뫁뫂뫃뫄뫅뫆뫇뫈뫉뫊뫋뫌뫍",
     "뫎뫏뫐뫑뫒뫓뫔뫕뫖뫗뫘뫙뫚뫛뫜뫝뫞뫟뫠뫡뫢뫣뫤뫥뫦뫧뫨뫩뫪뫫뫬뫭뫮뫯뫰뫱뫲뫳뫴뫵뫶뫷뫸뫹뫺뫻뫼뫽",
     "뫾뫿뮀뮁뮂뮃뮄뮅뮆뮇뮈뮉뮊뮋뮌뮍뮎뮏뮐뮑뮒뮓뮔뮕뮖뮗뮘뮙뮚뮛뮜뮝뮞뮟뮠뮡뮢뮣뮤뮥뮦뮧뮨뮩뮪뮫뮬뮭",
     "뮮뮯뮰뮱뮲뮳뮴뮵뮶뮷뮸뮹뮺뮻뮼뮽뮾뮿므믁믂믃믄믅믆믇믈믉믊믋믌믍믎믏믐믑믒믓믔믕믖믗믘믙믚믛믜믝",
     "믞믟믠믡믢믣믤믥믦믧믨믩믪믫믬믭믮믯믰믱믲믳믴믵믶믷미믹믺믻민믽믾믿벀벁벂벃버벅벆벇번벉벊벋벌벍",
     "벎벏벐벑벒벓범법벖벗벘벙벚벛벜벝벞벟베벡벢벣벤벥벦벧벨벩벪벫벬벭벮벯벰벱벲벳벴벵벶벷벸벹벺벻벼벽",
     "벾벿변볁볂볃별볅볆볇볈볉볊볋볌볍볎볏볐병볒볓볔볕볖볗볘볙볚볛볜볝볞볟볠볡볢볣볤볥볦볧볨볩볪볫볬볭",
     "볮볯볰볱볲볳보복볶볷본볹볺볻볼볽볾볿부북붂붃분붅붆붇불붉붊붋붌붍붎붏붐붑붒붓붔붕붖붗붘붙붚붛붜붝",
     "붞붟붠붡붢붣붤붥붦붧붨붩붪붫붬붭붮붯붰붱붲붳붴붵붶붷붸붹붺붻붼붽붾붿뷀뷁뷂뷃뷄뷅뷆뷇뷈뷉뷊뷋뷌뷍",
     "뷎뷏뷐뷑뷒뷓뷔뷕뷖뷗뷘뷙뷚뷛뷜뷝뷞뷟뷠뷡뷢뷣뷤뷥뷦뷧뷨뷩뷪뷫뷬뷭뷮뷯뷰뷱뷲뷳뷴뷵뷶뷷뷸뷹뷺뷻뷼뷽",
     "뷾뷿뺀뺁뺂뺃뺄뺅뺆뺇뺈뺉뺊뺋뺌뺍뺎뺏뺐뺑뺒뺓뺔뺕뺖뺗뺘뺙뺚뺛뺜뺝뺞뺟뺠뺡뺢뺣뺤뺥뺦뺧뺨뺩뺪뺫뺬뺭",
     "뺮뺯뺰뺱뺲뺳뺴뺵뺶뺷뺸뺹뺺뺻뺼뺽뺾뺿뻀뻁뻂뻃뻄뻅뻆뻇뻈뻉뻊뻋뻌뻍뻎뻏뻐뻑뻒뻓뻔뻕뻖뻗뻘뻙뻚뻛뻜뻝",
     "뻞뻟뻠뻡뻢뻣뻤뻥뻦뻧뻨뻩뻪뻫뻬뻭뻮뻯뻰뻱뻲뻳뻴뻵뻶뻷뻸뻹뻺뻻뻼뻽뻾뻿뾀뾁뾂뾃뾄뾅뾆뾇뾈뾉뾊뾋뾌뾍",
     "뾎뾏뾐뾑뾒뾓뾔뾕뾖뾗뾘뾙뾚뾛뾜뾝뾞뾟뾠뾡뾢뾣뾤뾥뾦뾧뾨뾩뾪뾫뾬뾭뾮뾯뾰뾱뾲뾳뾴뾵뾶뾷뾸뾹뾺뾻뾼뾽",
     "뾾뾿뿀뿁뿂뿃뿄뿅뿆뿇뿈뿉뿊뿋뿌뿍뿎뿏뿐뿑뿒뿓뿔뿕뿖뿗뿘뿙뿚뿛뿜뿝뿞뿟뿠뿡뿢뿣뿤뿥뿦뿧뿨뿩뿪뿫뿬뿭",
     "뿮뿯뿰뿱뿲뿳뿴뿵뿶뿷뿸뿹뿺뿻뿼뿽뿾뿿삀삁삂삃삄삅삆삇삈삉삊삋삌삍삎삏삐삑삒삓삔삕삖삗삘삙삚삛삜삝",
     "삞삟삠삡삢삣삤삥삦삧삨삩삪삫사삭삮삯산삱삲삳살삵삶삷삸삹삺삻삼삽삾삿샀상샂샃샄샅샆샇새색샊샋샌샍",
     "샎샏샐샑샒샓샔샕샖샗샘샙샚샛샜생샞샟샠샡샢샣샤샥샦샧샨샩샪샫샬샭샮샯샰샱샲샳샴샵샶샷샸샹샺샻샼샽",
     "샾샿솀솁솂솃솄솅솆솇솈솉솊솋소속솎솏손솑솒솓솔솕솖솗솘솙솚솛솜솝솞솟솠송솢솣솤솥솦솧솨솩솪솫솬솭",
     "솮솯솰솱솲솳솴솵솶솷솸솹솺솻솼솽솾솿쇀쇁쇂쇃쇄쇅쇆쇇쇈쇉쇊쇋쇌쇍쇎쇏쇐쇑쇒쇓쇔쇕쇖쇗쇘쇙쇚쇛쇜쇝",
     "쇞쇟쇠쇡쇢쇣쇤쇥쇦쇧쇨쇩쇪쇫쇬쇭쇮쇯쇰쇱쇲쇳쇴쇵쇶쇷쇸쇹쇺쇻쇼쇽쇾쇿슀슁슂슃슄슅슆슇슈슉슊슋슌슍",
     "슎슏슐슑슒슓슔슕슖슗슘슙슚슛슜슝슞슟슠슡슢슣스슥슦슧슨슩슪슫슬슭슮슯슰슱슲슳슴습슶슷슸승슺슻슼슽",
     "슾슿싀싁싂싃싄싅싆싇싈싉싊싋싌싍싎싏싐싑싒싓싔싕싖싗싘싙싚싛시식싞싟신싡싢싣실싥싦싧싨싩싪싫심십",
     "싮싯싰싱싲싳싴싵싶싷싸싹싺싻싼싽싾싿쎀쎁쎂쎃쎄쎅쎆쎇쎈쎉쎊쎋쎌쎍쎎쎏쎐쎑쎒쎓쎔쎕쎖쎗쎘쎙쎚쎛쎜쎝",
     "쎞쎟쎠쎡쎢쎣쎤쎥쎦쎧쎨쎩쎪쎫쎬쎭쎮쎯쎰쎱쎲쎳쎴쎵쎶쎷쎸쎹쎺쎻쎼쎽쎾쎿쏀쏁쏂쏃쏄쏅쏆쏇쏈쏉쏊쏋쏌쏍",
     "쏎쏏쏐쏑쏒쏓쏔쏕쏖쏗쏘쏙쏚쏛쏜쏝쏞쏟쏠쏡쏢쏣쏤쏥쏦쏧쏨쏩쏪쏫쏬쏭쏮쏯쏰쏱쏲쏳쏴쏵쏶쏷쏸쏹쏺쏻쏼쏽",
     "쏾쏿쒀쒁쒂쒃쒄쒅쒆쒇쒈쒉쒊쒋쒌쒍쒎쒏쒐쒑쒒쒓쒔쒕쒖쒗쒘쒙쒚쒛쒜쒝쒞쒟쒠쒡쒢쒣쒤쒥쒦쒧쒨쒩쒪쒫쒬쒭",
     "쒮쒯쒰쒱쒲쒳쒴쒵쒶쒷쒸쒹쒺쒻쒼쒽쒾쒿쓀쓁쓂쓃쓄쓅쓆쓇쓈쓉쓊쓋쓌쓍쓎쓏쓐쓑쓒쓓쓔쓕쓖쓗쓘쓙쓚쓛쓜쓝",
     "쓞쓟쓠쓡쓢쓣쓤쓥쓦쓧쓨쓩쓪쓫쓬쓭쓮쓯쓰쓱쓲쓳쓴쓵쓶쓷쓸쓹쓺쓻쓼쓽쓾쓿얀얁얂얃얄얅얆얇얈얉얊얋얌얍",
     "얎얏얐양얒얓얔얕얖얗얘얙얚얛얜얝얞얟얠얡얢얣얤얥얦얧얨얩얪얫얬얭얮얯얰얱얲얳어억얶얷언얹얺얻얼얽",
     "얾얿엀엁엂엃엄업없엇었엉엊엋엌엍엎엏에엑엒엓엔엕엖엗엘엙엚엛엜엝엞엟엠엡엢엣엤엥엦엧엨엩엪엫여역",
     "엮엯연엱엲엳열엵엶엷엸엹엺엻염엽엾엿욀욁욂욃욄욅욆욇욈욉욊욋욌욍욎욏욐욑욒욓요욕욖욗욘욙욚욛욜욝",
     "욞욟욠욡욢욣욤욥욦욧욨용욪욫욬욭욮욯우욱욲욳운욵욶욷울욹욺욻욼욽욾욿움웁웂웃웄웅웆웇웈웉웊웋워웍",
     "웎웏원웑웒웓월웕웖웗웘웙웚웛웜웝웞웟웠웡웢웣웤웥웦웧웨웩웪웫웬웭웮웯웰웱웲웳웴웵웶웷웸웹웺웻웼웽",
     "웾웿잀잁잂잃임입잆잇있잉잊잋잌잍잎잏자작잒잓잔잕잖잗잘잙잚잛잜잝잞잟잠잡잢잣잤장잦잧잨잩잪잫재잭",
     "잮잯잰잱잲잳잴잵잶잷잸잹잺잻잼잽잾잿쟀쟁쟂쟃쟄쟅쟆쟇쟈쟉쟊쟋쟌쟍쟎쟏쟐쟑쟒쟓쟔쟕쟖쟗쟘쟙쟚쟛쟜쟝",
     "쟞쟟쟠쟡쟢쟣쟤쟥쟦쟧쟨쟩쟪쟫쟬쟭쟮쟯쟰쟱쟲쟳쟴쟵쟶쟷쟸쟹쟺쟻쟼쟽쟾쟿좀좁좂좃좄종좆좇좈좉좊좋좌좍",
     "좎좏좐좑좒좓좔좕좖좗좘좙좚좛좜좝좞좟좠좡좢좣좤좥좦좧좨좩좪좫좬좭좮좯좰좱좲좳좴좵좶좷좸좹좺좻좼좽",
     "좾좿죀죁죂죃죄죅죆죇죈죉죊죋죌죍죎죏죐죑죒죓죔죕죖죗죘죙죚죛죜죝죞죟죠죡죢죣죤죥죦죧죨죩죪죫죬죭",
     "죮죯죰죱죲죳죴죵죶죷죸죹죺죻주죽죾죿즀즁즂즃즄즅즆즇즈즉즊즋즌즍즎즏즐즑즒즓즔즕즖즗즘즙즚즛즜증",
     "즞즟즠즡즢즣즤즥즦즧즨즩즪즫즬즭즮즯즰즱즲즳즴즵즶즷즸즹즺즻즼즽즾즿지직짂짃진짅짆짇질짉짊짋짌짍",
     "짎짏짐집짒짓짔징짖짗짘짙짚짛짜짝짞짟짠짡짢짣짤짥짦짧짨짩짪짫짬짭짮짯짰짱짲짳짴짵짶짷째짹짺짻짼짽",
     "짾짿쪀쪁쪂쪃쪄쪅쪆쪇쪈쪉쪊쪋쪌쪍쪎쪏쪐쪑쪒쪓쪔쪕쪖쪗쪘쪙쪚쪛쪜쪝쪞쪟쪠쪡쪢쪣쪤쪥쪦쪧쪨쪩쪪쪫쪬쪭",
     "쪮쪯쪰쪱쪲쪳쪴쪵쪶쪷쪸쪹쪺쪻쪼쪽쪾쪿쫀쫁쫂쫃쫄쫅쫆쫇쫈쫉쫊쫋쫌쫍쫎쫏쫐쫑쫒쫓쫔쫕쫖쫗쫘쫙쫚쫛쫜쫝",
     "쫞쫟쫠쫡쫢쫣쫤쫥쫦쫧쫨쫩쫪쫫쫬쫭쫮쫯쫰쫱쫲쫳쫴쫵쫶쫷쫸쫹쫺쫻쫼쫽쫾쫿쮀쮁쮂쮃쮄쮅쮆쮇쮈쮉쮊쮋쮌쮍",
     "쮎쮏쮐쮑쮒쮓쮔쮕쮖쮗쮘쮙쮚쮛쮜쮝쮞쮟쮠쮡쮢쮣쮤쮥쮦쮧쮨쮩쮪쮫쮬쮭쮮쮯쮰쮱쮲쮳쮴쮵쮶쮷쮸쮹쮺쮻쮼쮽",
     "쮾쮿쯀쯁쯂쯃쯄쯅쯆쯇쯈쯉쯊쯋쯌쯍쯎쯏쯐쯑쯒쯓쯔쯕쯖쯗쯘쯙쯚쯛쯜쯝쯞쯟쯠쯡쯢쯣쯤쯥쯦쯧쯨쯩쯪쯫쯬쯭",
     "쯮쯯쯰쯱쯲쯳쯴쯵쯶쯷쯸쯹쯺쯻쯼쯽쯾쯿첀첁첂첃첄첅첆첇첈첉첊첋첌첍첎첏첐첑첒첓첔첕첖첗처척첚첛천첝",
     "첞첟철첡첢첣첤첥첦첧첨첩첪첫첬청첮첯첰첱첲첳체첵첶첷첸첹첺첻첼첽첾첿쳀쳁쳂쳃쳄쳅쳆쳇쳈쳉쳊쳋쳌쳍",
     "쳎쳏쳐쳑쳒쳓쳔쳕쳖쳗쳘쳙쳚쳛쳜쳝쳞쳟쳠쳡쳢쳣쳤쳥쳦쳧쳨쳩쳪쳫쳬쳭쳮쳯쳰쳱쳲쳳쳴쳵쳶쳷쳸쳹쳺쳻쳼쳽",
     "쳾쳿춀춁춂춃춄춅춆춇춈춉춊춋춌춍춎춏춐춑춒춓추축춖춗춘춙춚춛출춝춞춟춠춡춢춣춤춥춦춧춨충춪춫춬춭",
     "춮춯춰춱춲춳춴춵춶춷춸춹춺춻춼춽춾춿췀췁췂췃췄췅췆췇췈췉췊췋췌췍췎췏췐췑췒췓췔췕췖췗췘췙췚췛췜췝",
     "췞췟췠췡췢췣췤췥췦췧취췩췪췫췬췭췮췯췰췱췲췳췴췵췶췷췸췹췺췻췼췽췾췿캀캁캂캃캄캅캆캇캈캉캊캋캌캍",
     "캎캏캐캑캒캓캔캕캖캗캘캙캚캛캜캝캞캟캠캡캢캣캤캥캦캧캨캩캪캫캬캭캮캯캰캱캲캳캴캵캶캷캸캹캺캻캼캽",
     "캾캿컀컁컂컃컄컅컆컇컈컉컊컋컌컍컎컏컐컑컒컓컔컕컖컗컘컙컚컛컜컝컞컟컠컡컢컣커컥컦컧컨컩컪컫컬컭",
     "컮컯컰컱컲컳컴컵컶컷컸컹컺컻컼컽컾컿쾀쾁쾂쾃쾄쾅쾆쾇쾈쾉쾊쾋쾌쾍쾎쾏쾐쾑쾒쾓쾔쾕쾖쾗쾘쾙쾚쾛쾜쾝",
     "쾞쾟쾠쾡쾢쾣쾤쾥쾦쾧쾨쾩쾪쾫쾬쾭쾮쾯쾰쾱쾲쾳쾴쾵쾶쾷쾸쾹쾺쾻쾼쾽쾾쾿쿀쿁쿂쿃쿄쿅쿆쿇쿈쿉쿊쿋쿌쿍",
     "쿎쿏쿐쿑쿒쿓쿔쿕쿖쿗쿘쿙쿚쿛쿜쿝쿞쿟쿠쿡쿢쿣쿤쿥쿦쿧쿨쿩쿪쿫쿬쿭쿮쿯쿰쿱쿲쿳쿴쿵쿶쿷쿸쿹쿺쿻쿼쿽",
     "쿾쿿킀킁킂킃킄킅킆킇킈킉킊킋킌킍킎킏킐킑킒킓킔킕킖킗킘킙킚킛킜킝킞킟킠킡킢킣키킥킦킧킨킩킪킫킬킭",
     "킮킯킰킱킲킳킴킵킶킷킸킹킺킻킼킽킾킿타탁탂탃탄탅탆탇탈탉탊탋탌탍탎탏탐탑탒탓탔탕탖탗탘탙탚탛태택",
     "탞탟탠탡탢탣탤탥탦탧탨탩탪탫탬탭탮탯탰탱탲탳탴탵탶탷탸탹탺탻탼탽탾탿톀톁톂톃톄톅톆톇톈톉톊톋톌톍",
     "톎톏톐톑톒톓톔톕톖톗톘톙톚톛톜톝톞톟토톡톢톣톤톥톦톧톨톩톪톫톬톭톮톯톰톱톲톳톴통톶톷톸톹톺톻톼톽",
     "톾톿퇀퇁퇂퇃퇄퇅퇆퇇퇈퇉퇊퇋퇌퇍퇎퇏퇐퇑퇒퇓퇔퇕퇖퇗퇘퇙퇚퇛퇜퇝퇞퇟퇠퇡퇢퇣퇤퇥퇦퇧퇨퇩퇪퇫퇬퇭",
     "퇮퇯퇰퇱퇲퇳퇴퇵퇶퇷퇸퇹퇺퇻퇼퇽퇾퇿튀튁튂튃튄튅튆튇튈튉튊튋튌튍튎튏튐튑튒튓튔튕튖튗튘튙튚튛튜튝",
     "튞튟튠튡튢튣튤튥튦튧튨튩튪튫튬튭튮튯튰튱튲튳튴튵튶튷트특튺튻튼튽튾튿틀틁틂틃틄틅틆틇틈틉틊틋틌틍",
     "틎틏틐틑틒틓틔틕틖틗틘틙틚틛틜틝틞틟틠틡틢틣틤틥틦틧틨틩틪틫틬틭틮틯티틱틲틳틴틵틶틷틸틹틺틻틼틽",
     "틾틿펀펁펂펃펄펅펆펇펈펉펊펋펌펍펎펏펐펑펒펓펔펕펖펗페펙펚펛펜펝펞펟펠펡펢펣펤펥펦펧펨펩펪펫펬펭",
     "펮펯펰펱펲펳펴펵펶펷편펹펺펻펼펽펾펿폀폁폂폃폄폅폆폇폈평폊폋폌폍폎폏폐폑폒폓폔폕폖폗폘폙폚폛폜폝",
     "폞폟폠폡폢폣폤폥폦폧폨폩폪폫포폭폮폯폰폱폲폳폴폵폶폷폸폹폺폻폼폽폾폿풀풁풂풃풄풅풆풇품풉풊풋풌풍",
     "풎풏풐풑풒풓풔풕풖풗풘풙풚풛풜풝풞풟풠풡풢풣풤풥풦풧풨풩풪풫풬풭풮풯풰풱풲풳풴풵풶풷풸풹풺풻풼풽",
     "풾풿퓀퓁퓂퓃퓄퓅퓆퓇퓈퓉퓊퓋퓌퓍퓎퓏퓐퓑퓒퓓퓔퓕퓖퓗퓘퓙퓚퓛퓜퓝퓞퓟퓠퓡퓢퓣퓤퓥퓦퓧퓨퓩퓪퓫퓬퓭",
     "퓮퓯퓰퓱퓲퓳퓴퓵퓶퓷퓸퓹퓺퓻퓼퓽퓾퓿햀햁햂햃햄햅햆햇했행햊햋햌햍햎햏햐햑햒햓햔햕햖햗햘햙햚햛햜햝",
     "햞햟햠햡햢햣햤향햦햧햨햩햪햫햬햭햮햯햰햱햲햳햴햵햶햷햸햹햺햻햼햽햾햿헀헁헂헃헄헅헆헇허헉헊헋헌헍",
     "헎헏헐헑헒헓헔헕헖헗험헙헚헛헜헝헞헟헠헡헢헣헤헥헦헧헨헩헪헫헬헭헮헯헰헱헲헳헴헵헶헷헸헹헺헻헼헽",
     "헾헿횀횁횂횃횄횅횆횇횈횉횊횋회획횎횏횐횑횒횓횔횕횖횗횘횙횚횛횜횝횞횟횠횡횢횣횤횥횦횧효횩횪횫횬횭",
     "횮횯횰횱횲횳횴횵횶횷횸횹횺횻횼횽횾횿훀훁훂훃후훅훆훇훈훉훊훋훌훍훎훏훐훑훒훓훔훕훖훗훘훙훚훛훜훝",
     "훞훟훠훡훢훣훤훥훦훧훨훩훪훫훬훭훮훯훰훱훲훳훴훵훶훷훸훹훺훻훼훽훾훿힀힁힂힃힄힅힆힇히힉힊힋힌힍",
     "힎힏힐힑힒힓힔힕힖힗힘힙힚힛힜힝힞힟힠힡힢힣ힰힱힲힳힴힵힶힷힸힹힺힻힼힽힾힿퟀퟁퟂퟃퟄퟅퟆퟋퟌퟍ",
     "ퟎퟏퟐퟑퟒퟓퟔퟕퟖퟗퟘퟙퟚퟛퟜퟝퟞퟟퟠퟡퟢퟣퟤퟥퟦퟧퟨퟩퟪퟫퟬퟭퟮퟯퟰퟱퟲퟳퟴퟵퟶퟷퟸퟹퟺퟻ呂女",
     "廬旅濾礪閭驪麗黎力曆歷轢年憐戀撚漣煉璉秊練聯輦蓮連鍊列劣咽烈裂說廉念捻殮簾獵令囹寧嶺怜玲瑩羚聆鈴",
     "零靈領例禮醴隸惡了僚寮尿料樂燎療蓼遼龍暈阮劉杻柳流溜琉留硫紐類六戮陸倫崙淪輪律慄栗率隆利吏履易李",
     "梨泥理痢罹裏裡里離匿溺吝燐璘藺隣鱗麟林淋臨立笠粒狀炙識什茶刺婢嬨廒廙彩徭惘慎愈憎慠懲戴揄搜摒敖晴",
     "朗望杖歹殺流滛滋漢瀞煮瞧爵犯猪瑱甆画瘝瘟益盛直睊着磌窱節类絛練缾者荒華蝹襁覆視調諸請謁諾諭謹變贈",
     "輸遲醙鉶陼難靖韛響頋頻鬒龜𢡊𢡄𣏕㮝䀘䀹𥉉𥳐𧻓齃龎ﮀﮁﮂﮃﮄﮅﮆﮇﮈﮉﮊﮋﮌﮍﮎﮏﮐﮑﮒﮓﮔﮕﮖﮗ",
     "ﮘﮙﮚﮛﮜﮝﮞﮟﮠﮡﮢﮣﮤﮥﮦﮧﮨﮩﮪﮫﮬﮭﮮﮯﮰﮱﯓﯔﯕﯖﯗﯘﯙﯚﯛﯜﯝﯞﯟﯠﯡﯢﯣﯤﯥﯦﯧﯨ",
     "ﯩﯪﯫﯬﯭﯮﯯﯰﯱﯲﯳﯴﯵﯶﯷﯸﯹﯺﯻﯼﯽﯾﯿﲀﲁﲂﲃﲄﲅﲆﲇﲈﲉﲊﲋﲌﲍﲎﲏﲐﲑﲒﲓﲔﲕﲖﲗﲘ",
     "ﲙﲚﲛﲜﲝﲞﲟﲠﲡﲢﲣﲤﲥﲦﲧﲨﲩﲪﲫﲬﲭﲮﲯﲰﲱﲲﲳﲴﲵﲶﲷﲸﲹﲺﲻﲼﲽﲾﲿﳀﳁﳂﳃﳄﳅﳆﳇﳈ",
     "ﳉﳊﳋﳌﳍﳎﳏﳐﳑﳒﳓﳔﳕﳖﳗﳘﳙﳚﳛﳜﳝﳞﳟﳠﳡﳢﳣﳤﳥﳦﳧﳨﳩﳪﳫﳬﳭﳮﳯﳰﳱﳲﳳﳴﳵﳶﳷﳸ",
     "ﳹﳺﳻﳼﳽﳾﳿﶀﶁﶂﶃﶄﶅﶆﶇﶈﶉﶊﶋﶌﶍﶎﶏﶒﶓﶔﶕﶖﶗﶘﶙﶚﶛﶜﶝﶞﶟﶠﶡﶢﶣﶤﶥﶦﶧﶨﶩﶪ",
     "ﶫﶬﶭﶮﶯﶰﶱﶲﶳﶴﶵﶶﶷﶸﶹﶺﶻﶼﶽﶾﶿﷀﷁﷂﷃﷄﷅﷆﷇﷰﷱﷲﷳﷴﷵﷶﷷﷸﷹﷺﷻﺀﺁﺂﺃﺄﺅﺆ",
     "ﺇﺈﺉﺊﺋﺌﺍﺎﺏﺐﺑﺒﺓﺔﺕﺖﺗﺘﺙﺚﺛﺜﺝﺞﺟﺠﺡﺢﺣﺤﺥﺦﺧﺨﺩﺪﺫﺬﺭﺮﺯﺰﺱﺲﺳﺴﺵﺶ",
     "ﺷﺸﺹﺺﺻﺼﺽﺾﺿﻀﻁﻂﻃﻄﻅﻆﻇﻈﻉﻊﻋﻌﻍﻎﻏﻐﻑﻒﻓﻔﻕﻖﻗﻘﻙﻚﻛﻜﻝﻞﻟﻠﻡﻢﻣﻤﻥﻦ",
     "ﻧﻨﻩﻪﻫﻬﻭﻮﻯﻰﻱﻲﻳﻴﻵﻶﻷﻸﻹﻺﻻﻼﾀﾁﾂﾃﾄﾅﾆﾇﾈﾉﾊﾋﾌﾍﾎﾏﾐﾑﾒﾓﾔﾕﾖﾗﾘﾙ",
     "ﾚﾛﾜﾝﾞﾟﾠﾡﾢﾣﾤﾥﾦﾧﾨﾩﾪﾫﾬﾭﾮﾯﾰﾱﾲﾳﾴﾵﾶﾷﾸﾹﾺﾻﾼﾽﾾￂￃￄￅￆￇￊￋￌￍￎ",
     "ￏￒￓￔￕￖￗￚￛￜ"}

\* The letters of two units
WideLetters ==
    {"𰂀𰂁𰂂𰂃𰂄𰂅𰂆𰂇𰂈𰂉𰂊𰂋𰂌𰂍𰂎𰂏𰂐𰂑𰂒𰂓𰂔𰂕𰂖𰂗𰂘𰂙𰂚𰂛𰂜𰂝𰂞𰂟𰂠𰂡𰂢𰂣𰂤𰂥𰂦𰂧𰂨𰂩𰂪𰂫𰂬𰂭𰂮𰂯",
     "𰂰𰂱𰂲𰂳𰂴𰂵𰂶𰂷𰂸𰂹𰂺𰂻𰂼𰂽𰂾𰂿𰃀𰃁𰃂𰃃𰃄𰃅𰃆𰃇𰃈𰃉𰃊𰃋𰃌𰃍𰃎𰃏𰃐𰃑𰃒𰃓𰃔𰃕𰃖𰃗𰃘𰃙𰃚𰃛𰃜𰃝𰃞𰃟",
     "𰃠𰃡𰃢𰃣𰃤𰃥𰃦𰃧𰃨𰃩𰃪𰃫𰃬𰃭𰃮𰃯𰃰𰃱𰃲𰃳𰃴𰃵𰃶𰃷𰃸𰃹𰃺𰃻𰃼𰃽𰃾𰃿𰆀𰆁𰆂𰆃𰆄𰆅𰆆𰆇𰆈𰆉𰆊𰆋𰆌𰆍𰆎𰆏",
     "𰆐𰆑𰆒𰆓𰆔𰆕𰆖𰆗𰆘𰆙𰆚𰆛𰆜𰆝𰆞𰆟𰆠𰆡𰆢𰆣𰆤𰆥𰆦𰆧𰆨𰆩𰆪𰆫𰆬𰆭𰆮𰆯𰆰𰆱𰆲𰆳𰆴𰆵𰆶𰆷𰆸𰆹𰆺𰆻𰆼𰆽𰆾𰆿",
     "𰇀𰇁𰇂𰇃𰇄𰇅𰇆𰇇𰇈𰇉𰇊𰇋𰇌𰇍𰇎𰇏𰇐𰇑𰇒𰇓𰇔𰇕𰇖𰇗𰇘𰇙𰇚𰇛𰇜𰇝𰇞𰇟𰇠𰇡𰇢𰇣𰇤𰇥𰇦𰇧𰇨𰇩𰇪𰇫𰇬𰇭𰇮𰇯",
     "𰇰𰇱𰇲𰇳𰇴𰇵𰇶𰇷𰇸𰇹𰇺𰇻𰇼𰇽𰇾𰇿𰊀𰊁𰊂𰊃𰊄𰊅𰊆𰊇𰊈𰊉𰊊𰊋𰊌𰊍𰊎𰊏𰊐𰊑𰊒𰊓𰊔𰊕𰊖𰊗𰊘𰊙𰊚𰊛𰊜𰊝𰊞𰊟",
     "𰊠𰊡𰊢𰊣𰊤𰊥𰊦𰊧𰊨𰊩𰊪𰊫𰊬𰊭𰊮𰊯𰊰𰊱𰊲𰊳𰊴𰊵𰊶𰊷𰊸𰊹𰊺𰊻𰊼𰊽𰊾𰊿𰋀𰋁𰋂𰋃𰋄𰋅𰋆𰋇𰋈𰋉𰋊𰋋𰋌𰋍𰋎𰋏",
     "𰋐𰋑𰋒𰋓𰋔𰋕𰋖𰋗𰋘𰋙𰋚𰋛𰋜𰋝𰋞𰋟𰋠𰋡𰋢𰋣𰋤𰋥𰋦𰋧𰋨𰋩𰋪𰋫𰋬𰋭𰋮𰋯𰋰𰋱𰋲𰋳𰋴𰋵𰋶𰋷𰋸𰋹𰋺𰋻𰋼𰋽𰋾𰋿",
     "𰎀𰎁𰎂𰎃𰎄𰎅𰎆𰎇𰎈𰎉𰎊𰎋𰎌𰎍𰎎𰎏𰎐𰎑𰎒𰎓𰎔𰎕𰎖𰎗𰎘𰎙𰎚𰎛𰎜𰎝𰎞𰎟𰎠𰎡𰎢𰎣𰎤𰎥𰎦𰎧𰎨𰎩𰎪𰎫𰎬𰎭𰎮𰎯",
     "𰎰𰎱𰎲𰎳𰎴𰎵𰎶𰎷𰎸𰎹𰎺𰎻𰎼𰎽𰎾𰎿𰏀𰏁𰏂𰏃𰏄𰏅𰏆𰏇𰏈𰏉𰏊𰏋𰏌𰏍𰏎𰏏𰏐𰏑𰏒𰏓𰏔𰏕𰏖𰏗𰏘𰏙𰏚𰏛𰏜𰏝𰏞𰏟",
     "𰏠𰏡𰏢𰏣𰏤𰏥𰏦𰏧𰏨𰏩𰏪𰏫𰏬𰏭𰏮𰏯𰏰𰏱𰏲𰏳𰏴𰏵𰏶𰏷𰏸𰏹𰏺𰏻𰏼𰏽𰏾𰏿𰒀𰒁𰒂𰒃𰒄𰒅𰒆𰒇𰒈𰒉𰒊𰒋𰒌𰒍𰒎𰒏",
     "𰒐𰒑𰒒𰒓𰒔𰒕𰒖𰒗𰒘𰒙𰒚𰒛𰒜𰒝𰒞𰒟𰒠𰒡𰒢𰒣𰒤𰒥𰒦𰒧𰒨𰒩𰒪𰒫𰒬𰒭𰒮𰒯𰒰𰒱𰒲𰒳𰒴𰒵𰒶𰒷𰒸𰒹𰒺𰒻𰒼𰒽𰒾𰒿",
     "𰓀𰓁𰓂𰓃𰓄𰓅𰓆𰓇𰓈𰓉𰓊𰓋𰓌𰓍𰓎𰓏𰓐𰓑𰓒𰓓𰓔𰓕𰓖𰓗𰓘𰓙𰓚𰓛𰓜𰓝𰓞𰓟𰓠𰓡𰓢𰓣𰓤𰓥𰓦𰓧𰓨𰓩𰓪𰓫𰓬𰓭𰓮𰓯",
     "𰓰𰓱𰓲𰓳𰓴𰓵𰓶𰓷𰓸𰓹𰓺𰓻𰓼𰓽𰓾𰓿𰖀𰖁𰖂𰖃𰖄𰖅𰖆𰖇𰖈𰖉𰖊𰖋𰖌𰖍𰖎𰖏𰖐𰖑𰖒𰖓𰖔𰖕𰖖𰖗𰖘𰖙𰖚𰖛𰖜𰖝𰖞𰖟",
     "𰖠𰖡𰖢𰖣𰖤𰖥𰖦𰖧𰖨𰖩𰖪𰖫𰖬𰖭𰖮𰖯𰖰𰖱𰖲𰖳𰖴𰖵𰖶𰖷𰖸𰖹𰖺𰖻𰖼𰖽𰖾𰖿𰗀𰗁𰗂𰗃𰗄𰗅𰗆𰗇𰗈𰗉𰗊𰗋𰗌𰗍𰗎𰗏",
     "𰗐𰗑𰗒𰗓𰗔𰗕𰗖𰗗𰗘𰗙𰗚𰗛𰗜𰗝𰗞𰗟𰗠𰗡𰗢𰗣𰗤𰗥𰗦𰗧𰗨𰗩𰗪𰗫𰗬𰗭𰗮𰗯𰗰𰗱𰗲𰗳𰗴𰗵𰗶𰗷𰗸𰗹𰗺𰗻𰗼𰗽𰗾𰗿",
     "𰚀𰚁𰚂𰚃𰚄𰚅𰚆𰚇𰚈𰚉𰚊𰚋𰚌𰚍𰚎𰚏𰚐𰚑𰚒𰚓𰚔𰚕𰚖𰚗𰚘𰚙𰚚𰚛𰚜𰚝𰚞𰚟𰚠𰚡𰚢𰚣𰚤𰚥𰚦𰚧𰚨𰚩𰚪𰚫𰚬𰚭𰚮𰚯",
     "𰚰𰚱𰚲𰚳𰚴𰚵𰚶𰚷𰚸𰚹𰚺𰚻𰚼𰚽𰚾𰚿𰛀𰛁𰛂𰛃𰛄𰛅𰛆𰛇𰛈𰛉𰛊𰛋𰛌𰛍𰛎𰛏𰛐𰛑𰛒𰛓𰛔𰛕𰛖𰛗𰛘𰛙𰛚𰛛𰛜𰛝𰛞𰛟",
     "𰛠𰛡𰛢𰛣𰛤𰛥𰛦𰛧𰛨𰛩𰛪𰛫𰛬𰛭𰛮𰛯𰛰𰛱𰛲𰛳𰛴𰛵𰛶𰛷𰛸𰛹𰛺𰛻𰛼𰛽𰛾𰛿𰞀𰞁𰞂𰞃𰞄𰞅𰞆𰞇𰞈𰞉𰞊𰞋𰞌𰞍𰞎𰞏",
     "𰞐𰞑𰞒𰞓𰞔𰞕𰞖𰞗𰞘𰞙𰞚𰞛𰞜𰞝𰞞𰞟𰞠𰞡𰞢𰞣𰞤𰞥𰞦𰞧𰞨𰞩𰞪𰞫𰞬𰞭𰞮𰞯𰞰𰞱𰞲𰞳𰞴𰞵𰞶𰞷𰞸𰞹𰞺𰞻𰞼𰞽𰞾𰞿",
     "𰟀𰟁𰟂𰟃𰟄𰟅𰟆𰟇𰟈𰟉𰟊𰟋𰟌𰟍𰟎𰟏𰟐𰟑𰟒𰟓𰟔𰟕𰟖𰟗𰟘𰟙𰟚𰟛𰟜𰟝𰟞𰟟𰟠𰟡𰟢𰟣𰟤𰟥𰟦𰟧𰟨𰟩𰟪𰟫𰟬𰟭𰟮𰟯",
     "𰟰𰟱𰟲𰟳𰟴𰟵𰟶𰟷𰟸𰟹𰟺𰟻𰟼𰟽𰟾𰟿𰢀𰢁𰢂𰢃𰢄𰢅𰢆𰢇𰢈𰢉𰢊𰢋𰢌𰢍𰢎𰢏𰢐𰢑𰢒𰢓𰢔𰢕𰢖𰢗𰢘𰢙𰢚𰢛𰢜𰢝𰢞𰢟",
     "𰢠𰢡𰢢𰢣𰢤𰢥𰢦𰢧𰢨𰢩𰢪𰢫𰢬𰢭𰢮𰢯𰢰𰢱𰢲𰢳𰢴𰢵𰢶𰢷𰢸𰢹𰢺𰢻𰢼𰢽𰢾𰢿𰣀𰣁𰣂𰣃𰣄𰣅𰣆𰣇𰣈𰣉𰣊𰣋𰣌𰣍𰣎𰣏",
     "𰣐𰣑𰣒𰣓𰣔𰣕𰣖𰣗𰣘𰣙𰣚𰣛𰣜𰣝𰣞𰣟𰣠𰣡𰣢𰣣𰣤𰣥𰣦𰣧𰣨𰣩𰣪𰣫𰣬𰣭𰣮𰣯𰣰𰣱𰣲𰣳𰣴𰣵𰣶𰣷𰣸𰣹𰣺𰣻𰣼𰣽𰣾𰣿",
     "𰦀𰦁𰦂𰦃𰦄𰦅𰦆𰦇𰦈𰦉𰦊𰦋𰦌𰦍𰦎𰦏𰦐𰦑𰦒𰦓𰦔𰦕𰦖𰦗𰦘𰦙𰦚𰦛𰦜𰦝𰦞𰦟𰦠𰦡𰦢𰦣𰦤𰦥𰦦𰦧𰦨𰦩𰦪𰦫𰦬𰦭𰦮𰦯",
     "𰦰𰦱𰦲𰦳𰦴𰦵𰦶𰦷𰦸𰦹𰦺𰦻𰦼𰦽𰦾𰦿𰧀𰧁𰧂𰧃𰧄𰧅𰧆𰧇𰧈𰧉𰧊𰧋𰧌𰧍𰧎𰧏𰧐𰧑𰧒𰧓𰧔𰧕𰧖𰧗𰧘𰧙𰧚𰧛𰧜𰧝𰧞𰧟",
     "𰧠𰧡𰧢𰧣𰧤𰧥𰧦𰧧𰧨𰧩𰧪𰧫𰧬𰧭𰧮𰧯𰧰𰧱𰧲𰧳𰧴𰧵𰧶𰧷𰧸𰧹𰧺𰧻𰧼𰧽𰧾𰧿𰪀𰪁𰪂𰪃𰪄𰪅𰪆𰪇𰪈𰪉𰪊𰪋𰪌𰪍𰪎𰪏",
     "𰪐𰪑𰪒𰪓𰪔𰪕𰪖𰪗𰪘𰪙𰪚𰪛𰪜𰪝𰪞𰪟𰪠𰪡𰪢𰪣𰪤𰪥𰪦𰪧𰪨𰪩𰪪𰪫𰪬𰪭𰪮𰪯𰪰𰪱𰪲𰪳𰪴𰪵𰪶𰪷𰪸𰪹𰪺𰪻𰪼𰪽𰪾𰪿",
     "𰫀𰫁𰫂𰫃𰫄𰫅𰫆𰫇𰫈𰫉𰫊𰫋𰫌𰫍𰫎𰫏𰫐𰫑𰫒𰫓𰫔𰫕𰫖𰫗𰫘𰫙𰫚𰫛𰫜𰫝𰫞𰫟𰫠𰫡𰫢𰫣𰫤𰫥𰫦𰫧𰫨𰫩𰫪𰫫𰫬𰫭𰫮𰫯",
     "𰫰𰫱𰫲𰫳𰫴𰫵𰫶𰫷𰫸𰫹𰫺𰫻𰫼𰫽𰫾𰫿𰮀𰮁𰮂𰮃𰮄𰮅𰮆𰮇𰮈𰮉𰮊𰮋𰮌𰮍𰮎𰮏𰮐𰮑𰮒𰮓𰮔𰮕𰮖𰮗𰮘𰮙𰮚𰮛𰮜𰮝𰮞𰮟",
     "𰮠𰮡𰮢𰮣𰮤𰮥𰮦𰮧𰮨𰮩𰮪𰮫𰮬𰮭𰮮𰮯𰮰𰮱𰮲𰮳𰮴𰮵𰮶𰮷𰮸𰮹𰮺𰮻𰮼𰮽𰮾𰮿𰯀𰯁𰯂𰯃𰯄𰯅𰯆𰯇𰯈𰯉𰯊𰯋𰯌𰯍𰯎𰯏",
     "𰯐𰯑𰯒𰯓𰯔𰯕𰯖𰯗𰯘𰯙𰯚𰯛𰯜𰯝𰯞𰯟𰯠𰯡𰯢𰯣𰯤𰯥𰯦𰯧𰯨𰯩𰯪𰯫𰯬𰯭𰯮𰯯𰯰𰯱𰯲𰯳𰯴𰯵𰯶𰯷𰯸𰯹𰯺𰯻𰯼𰯽𰯾𰯿",
     "𰲀𰲁𰲂𰲃𰲄𰲅𰲆𰲇𰲈𰲉𰲊𰲋𰲌𰲍𰲎𰲏𰲐𰲑𰲒𰲓𰲔𰲕𰲖𰲗𰲘𰲙𰲚𰲛𰲜𰲝𰲞𰲟𰲠𰲡𰲢𰲣𰲤𰲥𰲦𰲧𰲨𰲩𰲪𰲫𰲬𰲭𰲮𰲯",
     "𰲰𰲱𰲲𰲳𰲴𰲵𰲶𰲷𰲸𰲹𰲺𰲻𰲼𰲽𰲾𰲿𰳀𰳁𰳂𰳃𰳄𰳅𰳆𰳇𰳈𰳉𰳊𰳋𰳌𰳍𰳎𰳏𰳐𰳑𰳒𰳓𰳔𰳕𰳖𰳗𰳘𰳙𰳚𰳛𰳜𰳝𰳞𰳟",
     "𰳠𰳡𰳢𰳣𰳤𰳥𰳦𰳧𰳨𰳩𰳪𰳫𰳬𰳭𰳮𰳯𰳰𰳱𰳲𰳳𰳴𰳵𰳶𰳷𰳸𰳹𰳺𰳻𰳼𰳽𰳾𰳿𰶀𰶁𰶂𰶃𰶄𰶅𰶆𰶇𰶈𰶉𰶊𰶋𰶌𰶍𰶎𰶏",
     "𰶐𰶑𰶒𰶓𰶔𰶕𰶖𰶗𰶘𰶙𰶚𰶛𰶜𰶝𰶞𰶟𰶠𰶡𰶢𰶣𰶤𰶥𰶦𰶧𰶨𰶩𰶪𰶫𰶬𰶭𰶮𰶯𰶰𰶱𰶲𰶳𰶴𰶵𰶶𰶷𰶸𰶹𰶺𰶻𰶼𰶽𰶾𰶿",
     "𰷀𰷁𰷂𰷃𰷄𰷅𰷆𰷇𰷈𰷉𰷊𰷋𰷌𰷍𰷎𰷏𰷐𰷑𰷒𰷓𰷔𰷕𰷖𰷗𰷘𰷙𰷚𰷛𰷜𰷝𰷞𰷟𰷠𰷡𰷢𰷣𰷤𰷥𰷦𰷧𰷨𰷩𰷪𰷫𰷬𰷭𰷮𰷯",
     "𰷰𰷱𰷲𰷳𰷴𰷵𰷶𰷷𰷸𰷹𰷺𰷻𰷼𰷽𰷾𰷿𰺀𰺁𰺂𰺃𰺄𰺅𰺆𰺇𰺈𰺉𰺊𰺋𰺌𰺍𰺎𰺏𰺐𰺑𰺒𰺓𰺔𰺕𰺖𰺗𰺘𰺙𰺚𰺛𰺜𰺝𰺞𰺟",
     "𰺠𰺡𰺢𰺣𰺤𰺥𰺦𰺧𰺨𰺩𰺪𰺫𰺬𰺭𰺮𰺯𰺰𰺱𰺲𰺳𰺴𰺵𰺶𰺷𰺸𰺹𰺺𰺻𰺼𰺽𰺾𰺿𰻀𰻁𰻂𰻃𰻄𰻅𰻆𰻇𰻈𰻉𰻊𰻋𰻌𰻍𰻎𰻏",
     "𰻐𰻑𰻒𰻓𰻔𰻕𰻖𰻗𰻘𰻙𰻚𰻛𰻜𰻝𰻞𰻟𰻠𰻡𰻢𰻣𰻤𰻥𰻦𰻧𰻨𰻩𰻪𰻫𰻬𰻭𰻮𰻯𰻰𰻱𰻲𰻳𰻴𰻵𰻶𰻷𰻸𰻹𰻺𰻻𰻼𰻽𰻾𰻿",
     "𰾀𰾁𰾂𰾃𰾄𰾅𰾆𰾇𰾈𰾉𰾊𰾋𰾌𰾍𰾎𰾏𰾐𰾑𰾒𰾓𰾔𰾕𰾖𰾗𰾘𰾙𰾚𰾛𰾜𰾝𰾞𰾟𰾠𰾡𰾢𰾣𰾤𰾥𰾦𰾧𰾨𰾩𰾪𰾫𰾬𰾭𰾮𰾯",
     "𰾰𰾱𰾲𰾳𰾴𰾵𰾶𰾷𰾸𰾹𰾺𰾻𰾼𰾽𰾾𰾿𰿀𰿁𰿂𰿃𰿄𰿅𰿆𰿇𰿈𰿉𰿊𰿋𰿌𰿍𰿎𰿏𰿐𰿑𰿒𰿓𰿔𰿕𰿖𰿗𰿘𰿙𰿚𰿛𰿜𰿝𰿞𰿟",
     "𰿠𰿡𰿢𰿣𰿤𰿥𰿦𰿧𰿨𰿩𰿪𰿫𰿬𰿭𰿮𰿯𰿰𰿱𰿲𰿳𰿴𰿵𰿶𰿷𰿸𰿹𰿺𰿻𰿼𰿽𰿾𰿿𱂀𱂁𱂂𱂃𱂄𱂅𱂆𱂇𱂈𱂉𱂊𱂋𱂌𱂍𱂎𱂏",
     "𱂐𱂑𱂒𱂓𱂔𱂕𱂖𱂗𱂘𱂙𱂚𱂛𱂜𱂝𱂞𱂟𱂠𱂡𱂢𱂣𱂤𱂥𱂦𱂧𱂨𱂩𱂪𱂫𱂬𱂭𱂮𱂯𱂰𱂱𱂲𱂳𱂴𱂵𱂶𱂷𱂸𱂹𱂺𱂻𱂼𱂽𱂾𱂿",
     "𱃀𱃁𱃂𱃃𱃄𱃅𱃆𱃇𱃈𱃉𱃊𱃋𱃌𱃍𱃎𱃏𱃐𱃑𱃒𱃓𱃔𱃕𱃖𱃗𱃘𱃙𱃚𱃛𱃜𱃝𱃞𱃟𱃠𱃡𱃢𱃣𱃤𱃥𱃦𱃧𱃨𱃩𱃪𱃫𱃬𱃭𱃮𱃯",
     "𱃰𱃱𱃲𱃳𱃴𱃵𱃶𱃷𱃸𱃹𱃺𱃻𱃼𱃽𱃾𱃿𱆀𱆁𱆂𱆃𱆄𱆅𱆆𱆇𱆈𱆉𱆊𱆋𱆌𱆍𱆎𱆏𱆐𱆑𱆒𱆓𱆔𱆕𱆖𱆗𱆘𱆙𱆚𱆛𱆜𱆝𱆞𱆟",
     "𱆠𱆡𱆢𱆣𱆤𱆥𱆦𱆧𱆨𱆩𱆪𱆫𱆬𱆭𱆮𱆯𱆰𱆱𱆲𱆳𱆴𱆵𱆶𱆷𱆸𱆹𱆺𱆻𱆼𱆽𱆾𱆿𱇀𱇁𱇂𱇃𱇄𱇅𱇆𱇇𱇈𱇉𱇊𱇋𱇌𱇍𱇎𱇏",
     "𱇐𱇑𱇒𱇓𱇔𱇕𱇖𱇗𱇘𱇙𱇚𱇛𱇜𱇝𱇞𱇟𱇠𱇡𱇢𱇣𱇤𱇥𱇦𱇧𱇨𱇩𱇪𱇫𱇬𱇭𱇮𱇯𱇰𱇱𱇲𱇳𱇴𱇵𱇶𱇷𱇸𱇹𱇺𱇻𱇼𱇽𱇾𱇿",
     "𱊀𱊁𱊂𱊃𱊄𱊅𱊆𱊇𱊈𱊉𱊊𱊋𱊌𱊍𱊎𱊏𱊐𱊑𱊒𱊓𱊔𱊕𱊖𱊗𱊘𱊙𱊚𱊛𱊜𱊝𱊞𱊟𱊠𱊡𱊢𱊣𱊤𱊥𱊦𱊧𱊨𱊩𱊪𱊫𱊬𱊭𱊮𱊯",
     "𱊰𱊱𱊲𱊳𱊴𱊵𱊶𱊷𱊸𱊹𱊺𱊻𱊼𱊽𱊾𱊿𱋀𱋁𱋂𱋃𱋄𱋅𱋆𱋇𱋈𱋉𱋊𱋋𱋌𱋍𱋎𱋏𱋐𱋑𱋒𱋓𱋔𱋕𱋖𱋗𱋘𱋙𱋚𱋛𱋜𱋝𱋞𱋟",
     "𱋠𱋡𱋢𱋣𱋤𱋥𱋦𱋧𱋨𱋩𱋪𱋫𱋬𱋭𱋮𱋯𱋰𱋱𱋲𱋳𱋴𱋵𱋶𱋷𱋸𱋹𱋺𱋻𱋼𱋽𱋾𱋿"}

isalpha(c) ==
    IF c \in Latin1 THEN c \in Latin1Letters
    ELSE Among(c, Letters, 1) \/ Among(c, WideLetters, 2)

\* The digits: the decimal digits of every script, and the superscript,
\* subscript, circled and other digits, which are digits and not decimal
Digits ==
    {"0123456789²³¹۰۱۲۳۴۵۶۷۸۹߀߁߂߃߄߅߆߇߈߉০১২৩৪৫৬৭৮৯૦૧૨૩૪",
     "૫૬૭૮૯௦௧௨௩௪௫௬௭௮௯೦೧೨೩೪೫೬೭೮೯෦෧෨෩෪෫෬෭෮෯໐໑໒໓໔໕໖໗໘໙႐႑႒",
     "႓႔႕႖႗႘႙០១២៣៤៥៦៧៨៩᧐᧑᧒᧓᧔᧕᧖᧗᧘᧙᧚᪀᪁᪂᪃᪄᪅᪆᪇᪈᪉᪐᪑᪒᪓᪔᪕᪖᪗᪘᪙",
     "᮰᮱᮲᮳᮴᮵᮶᮷᮸᮹₀₁₂₃₄₅₆₇₈₉⒈⒉⒊⒋⒌⒍⒎⒏⒐⓪⓵⓶⓷⓸⓹⓺⓻⓼⓽⓿➀➁➂➃➄➅➆➇",
     "➈➊➋➌➍➎➏➐➑➒꣐꣑꣒꣓꣔꣕꣖꣗꣘꣙꧐꧑꧒꧓꧔꧕꧖꧗꧘꧙꧰꧱꧲꧳꧴꧵꧶꧷꧸꧹꯰꯱꯲꯳꯴꯵꯶꯷",
     "꯸꯹"}

isdigit(c) ==
    IF c \in Latin1 THEN c \in {"0", "1", "2", "3", "4", "5", "6", "7", "8", "9", "²", "³", "¹"}
    ELSE Among(c, Digits, 1)

\* The characters that are numeric and neither letters nor digits: the
\* fractions, the Roman numerals and the numbers of other scripts
Numerics ==
    {"¼½¾৴৵৶৷৸৹௰௱௲ᛮᛯᛰ៰៱៲៳៴៵៶៷៸៹ↀↁↂↅↆↇↈ↉⒀⒁⒂⒃⒄⒅⒆⒇⒑⒒⒓⒔⒕⒖⒗",
     "⒘⒙⒚⒛⓫⓬⓭⓮⓯⓰⓱⓲⓳⓴⓾➉➓⳽㆒㆓㆔㆕㊀㊁㊂㊃㊄㊅㊆㊇㊈㊉㊱㊲㊳㊴㊵㊶㊷㊸㊹㊺㊻㊼㊽㊾㊿ꛦ",
     "ꛧꛨꛩꛪꛫꛬꛭꛮꛯ"}

isalnum(c) ==
    \/ isalpha(c)
    \/ isdigit(c)
    \/ IF c \in Latin1 THEN c \in {"¼", "½", "¾"}
       ELSE Among(c, Numerics, 1)

\* The decimal digits, which int() and float() read: Decimals[d + 1] holds
\* the digits of value d
Decimals ==
    <<"0۰߀০૦௦೦෦໐႐០᧐᪀᪐᮰꣐꧐꧰꯰",
      "1۱߁১૧௧೧෧໑႑១᧑᪁᪑᮱꣑꧑꧱꯱",
      "2۲߂২૨௨೨෨໒႒២᧒᪂᪒᮲꣒꧒꧲꯲",
      "3۳߃৩૩௩೩෩໓႓៣᧓᪃᪓᮳꣓꧓꧳꯳",
      "4۴߄৪૪௪೪෪໔႔៤᧔᪄᪔᮴꣔꧔꧴꯴",
      "5۵߅৫૫௫೫෫໕႕៥᧕᪅᪕᮵꣕꧕꧵꯵",
      "6۶߆৬૬௬೬෬໖႖៦᧖᪆᪖᮶꣖꧖꧶꯶",
      "7۷߇৭૭௭೭෭໗႗៧᧗᪇᪗᮷꣗꧗꧷꯷",
      "8۸߈৮૮௮೮෮໘႘៨᧘᪈᪘᮸꣘꧘꧸꯸",
      "9۹߉৯૯௯೯෯໙႙៩᧙᪉᪙᮹꣙꧙꧹꯹">>

isdecimal(c) ==
    IF c \in Latin1 THEN c \in {"0", "1", "2", "3", "4", "5", "6", "7", "8", "9"}
    ELSE \E d \in 1 .. 10 : Among(c, {Decimals[d]}, 1)

\* The value of a decimal digit
DigitVal(c) == (CHOOSE d \in 1 .. 10 : Among(c, {Decimals[d]}, 1)) - 1

\* Tokens.  A keyword, an operator and "EOF" are Python strings, an
\* identifier is an ID object and a number a Number object.
StrTok(str) == [type |-> "str", s |-> str, val |-> NoneV]

IDTok(name) == [type |-> "ID", s |-> name, val |-> NoneV]

NumberTok(v) == [type |-> "Number", s |-> "", val |-> v]

\* No exception, and an exception: SyntaxError carries the position and the
\* message; site is the function that raised it.
NoExc == [kind |-> "", row |-> 0, col |-> 0, message |-> "", site |-> ""]

IsExc(e) == e.kind # ""

Filename == "example.txt"

SyntaxError(row, col, message, site) ==
    [kind |-> "SyntaxError", row |-> row, col |-> col,
     message |-> Filename \o ":" \o ToString(row) \o ":" \o ToString(col)
                          \o ":" \o message,
     site |-> site]

PyError(kind, message, site) ==
    [kind |-> kind, row |-> 0, col |-> 0, message |-> message, site |-> site]

\* The state S of a compilation: the lexer's fields text, row, col and token,
\* the tape code, the exception exc that ended it, if any, and the call stack
\* k of the parsing functions.
Raised(S) == IsExc(S.exc)

\* Lexer.__ch and Lexer.__ch2: the first character and the first two.
ch(S) == IF S.text = <<>> THEN "" ELSE S.text[1]

ch2(S) ==
    IF Len(S.text) >= 2 THEN S.text[1] \o S.text[2] ELSE ch(S)

\* Lexer.__nextch
nextch(S) ==
    [S EXCEPT !.row = IF ch(S) = "\n" THEN S.row + 1 ELSE S.row,
              !.col = IF ch(S) = "\n" THEN 1
                      ELSE IF ch(S) # "" THEN S.col + 1 ELSE S.col,
              !.text = IF S.text = <<>> THEN <<>> ELSE Tail(S.text)]

\* Lexer.error
error(S, message, site) ==
    [S EXCEPT !.exc = SyntaxError(S.row, S.col, message, site)]

\* The loops of __variable and __number: the characters c(S) satisfying the
\* test are consumed and appended to acc.
RECURSIVE TakeAlnum(_, _)
TakeAlnum(S, acc) ==
    IF isalnum(ch(S)) THEN TakeAlnum(nextch(S), acc \o ch(S))
    ELSE [S |-> S, acc |-> acc]

RECURSIVE TakeDigits(_, _)
TakeDigits(S, acc) ==
    IF isdigit(ch(S)) THEN TakeDigits(nextch(S), Append(acc, ch(S)))
    ELSE [S |-> S, acc |-> acc]

\* Lexer.__variable
variable(S) ==
    LET r == TakeAlnum(S, "")
    IN  [r.S EXCEPT !.token = IF r.acc \in KEYWORDS THEN StrTok(r.acc)
                               ELSE IDTok(r.acc)]

RECURSIVE Join(_)
Join(cs) == IF cs = <<>> THEN "" ELSE cs[1] \o Join(Tail(cs))

\* int() of a sequence of decimal digits.
RECURSIVE PyInt(_)
PyInt(ds) ==
    IF ds = <<>> THEN 0
    ELSE 10 * PyInt(SubSeq(ds, 1, Len(ds) - 1)) + DigitVal(ds[Len(ds)])

RECURSIVE Pow10(_)
Pow10(k) == IF k = 0 THEN 1 ELSE 10 * Pow10(k - 1)

\* float() of the digits ip, a point and the digits fp.
PyFloat(ip, fp) == FloatV(PyInt(ip) * Pow10(Len(fp)) + PyInt(fp), Pow10(Len(fp)))

\* int(number) and float(number) raise ValueError when a character of the
\* string is a digit that is not decimal.
ValueError(S, message) ==
    [S EXCEPT !.exc = PyError("ValueError", message, "number")]

\* Lexer.__number
number(S) ==
    LET r == TakeDigits(S, <<>>)
    IN  IF ch(r.S) = "."
        THEN LET q == TakeDigits(nextch(r.S), <<>>)
                 ds == r.acc \o q.acc
                 str == Join(r.acc) \o "." \o Join(q.acc)
             IN  IF \A i \in 1 .. Len(ds) : isdecimal(ds[i])
                 THEN [q.S EXCEPT !.token = NumberTok(PyFloat(r.acc, q.acc))]
                 ELSE ValueError(q.S, "could not convert string to float: '"
                                      \o str \o "'")
        ELSE IF \A i \in 1 .. Len(r.acc) : isdecimal(r.acc[i])
             THEN [r.S EXCEPT !.token = NumberTok(IntV(PyInt(r.acc)))]
             ELSE ValueError(r.S, "invalid literal for int() with base 10: '"
                                  \o Join(r.acc) \o "'")

RECURSIVE SkipSpace(_)
SkipSpace(S) == IF isspace(ch(S)) THEN SkipSpace(nextch(S)) ELSE S

\* text[:k]
Prefix(cs, k) == SubSeq(cs, 1, IF Len(cs) < k THEN Len(cs) ELSE k)

\* Lexer.next_token.  (Every operator on the state of a compilation leaves
\* a state in which an exception was raised as it is: the exception ends
\* the calling functions at once.)
next_token(S0) ==
    IF S0.exc # NoExc THEN S0
    ELSE IF isalpha(ch(SkipSpace(S0))) THEN variable(SkipSpace(S0))
    ELSE IF isdigit(ch(SkipSpace(S0))) THEN number(SkipSpace(S0))
    ELSE IF ch2(SkipSpace(S0)) \in OPS2
        THEN [nextch(nextch(SkipSpace(S0)))
                 EXCEPT !.token = StrTok(ch2(SkipSpace(S0)))]
    ELSE IF ch(SkipSpace(S0)) \in OPS
        THEN [nextch(SkipSpace(S0)) EXCEPT !.token = StrTok(ch(SkipSpace(S0)))]
    ELSE IF ch(SkipSpace(S0)) = ""
        THEN [SkipSpace(S0) EXCEPT !.token = StrTok("EOF")]
    ELSE error(SkipSpace(S0),
               "Bad string '" \o Join(Prefix(SkipSpace(S0).text, 3)) \o "...'",
               "next_token")

\* str(token), as "{self.token}".format gives it, and repr(token).  ID has a
\* __repr__; Number's __repr__ reads self.name, which a Number does not have,
\* and raises AttributeError: then ok is FALSE.
TokenStr(tok) ==
    CASE tok.type = "str" -> [ok |-> TRUE, s |-> tok.s]
      [] tok.type = "ID" -> [ok |-> TRUE, s |-> "ID('" \o tok.s \o "')"]
      [] tok.type = "Number" -> [ok |-> FALSE, s |-> ""]

TokenRepr(tok) ==
    CASE tok.type = "str" -> [ok |-> TRUE, s |-> "'" \o tok.s \o "'"]
      [] tok.type = "ID" -> [ok |-> TRUE, s |-> "ID('" \o tok.s \o "')"]
      [] tok.type = "Number" -> [ok |-> FALSE, s |-> ""]

NumberReprError(S, site) ==
    [S EXCEPT !.exc = PyError("AttributeError",
                              "'Number' object has no attribute 'name'", site)]

\* lexer.error(prefix + repr(lexer.token))
ErrorGot(S, prefix, site) ==
    IF TokenRepr(S.token).ok
    THEN error(S, prefix \o TokenRepr(S.token).s, site)
    ELSE NumberReprError(S, site)

\* lexer.token == s, for a string s (an ID or a Number equals no string).
TokIs(S, str) == S.token.type = "str" /\ S.token.s = str

TokIn(S, strs) == S.token.type = "str" /\ S.token.s \in strs

\* Lexer.expects
expects(S, tokstr) ==
    IF S.exc # NoExc THEN S
    ELSE IF ~TokIs(S, tokstr)
        THEN IF TokenStr(S.token).ok
             THEN error(S, "Expected " \o tokstr \o ", but got "
                           \o TokenStr(S.token).s, "expects")
             ELSE NumberReprError(S, "expects")
        ELSE next_token(S)

-----------------------------------------------------------------------------
(* The instructions of the tape.  type is the Python type of the element;  *)
(* an element that is a plain string ("DROP", "+", ...) has type "str".    *)

RValue(v) == [type |-> "RValue", s |-> "", val |-> v, target |-> 0]

LValue(v) == [type |-> "LValue", s |-> "", val |-> v, target |-> 0]

ID(name) == [type |-> "ID", s |-> name, val |-> NoneV, target |-> 0]

OnFalseJump(t) == [type |-> "OnFalseJump", s |-> "", val |-> NoneV, target |-> t]

Jump(t) == [type |-> "Jump", s |-> "", val |-> NoneV, target |-> t]

Op(str) == [type |-> "str", s |-> str, val |-> NoneV, target |-> 0]

\* code.append(instr)
Emit(S, instr) ==
    IF S.exc # NoExc THEN S ELSE [S EXCEPT !.code = Append(S.code, instr)]

\* code[i].target = len(code), for the 0-based index i
Patch(S, i) ==
    IF S.exc # NoExc THEN S ELSE [S EXCEPT !.code[i + 1].target = Len(S.code)]

-----------------------------------------------------------------------------
(* Syntax analysis.  The parsing functions call one another recursively;   *)
(* the model keeps their call stack in the field k of the state of the     *)
(* compilation.  A frame of k is a place in the body of a parsing function *)
(* where it goes on once the function it called has returned, with the     *)
(* locals it still needs there: s holds sign, relop, the expected token or *)
(* the string to append, a and b hold start_loop and the indices of the    *)
(* jumps to_else, to_end and to_exit.  An operator named after a function  *)
(* or a place maps the state in which control is there to the state at the *)
(* next call or return.                                                    *)

RELOP == {"<", "<=", ">", ">=", "==", "!="}

STATKEYWORD == {"if", "while"}

VALKEYWORD(str) ==
    CASE str = "TRUE" -> BoolV(TRUE)
      [] str = "FALSE" -> BoolV(FALSE)
      [] str = "NONE" -> NoneV

VALKEYWORDS == {"TRUE", "FALSE", "NONE"}

start_primary(tok) ==
    \/ tok.type = "ID"
    \/ tok.type = "str" /\ tok.s \in VALKEYWORDS
    \/ tok.type = "str" /\ tok.s \in STATKEYWORD

F(fn) == [fn |-> fn, s |-> "", a |-> 0, b |-> 0]

FS(fn, str) == [fn |-> fn, s |-> str, a |-> 0, b |-> 0]

FI(fn, a, b) == [fn |-> fn, s |-> "", a |-> a, b |-> b]

RECURSIVE Reverse(_)
Reverse(q) == IF q = <<>> THEN <<>> ELSE Append(Reverse(Tail(q)), q[1])

\* What is left to do in state S: first the frames fs in their order, then
\* what was left before.  An exception leaves all functions at once.
Then(S, fs) == IF S.exc # NoExc THEN S ELSE [S EXCEPT !.k = @ \o Reverse(fs)]

\* program = exprlist
parse_program(S) == Then(S, <<F("exprlist"), FS("expects", "EOF")>>)

\* exprlist = expr { ';' expr }
parse_exprlist(S) == Then(S, <<F("expr"), F("exprlist_loop")>>)

\* A variant of the loop of parse_exprlist with a fault seeded: no DROP is
\* appended.
exprlist_loop_no_drop(S) ==
    IF ~TokIs(S, ";") THEN S
    ELSE Then(next_token(S), <<F("expr"), F("exprlist_loop")>>)

\* the while loop of parse_exprlist
exprlist_loop(S) ==
    IF ~TokIs(S, ";") THEN S
    ELSE Then(Emit(next_token(S), Op("DROP")), <<F("expr"), F("exprlist_loop")>>)

\* expr = arexpr [RELOP arexpr]
parse_expr(S) == Then(S, <<F("arexpr"), F("expr_relop")>>)

\* parse_expr after its first parse_arexpr
expr_relop(S) ==
    IF ~TokIn(S, RELOP) THEN S
    ELSE Then(next_token(S), <<F("arexpr"), FS("append", S.token.s)>>)

\* code.append(str), after a call
append(S, str) == Emit(S, Op(str))

\* A variant of parse_arexpr with a fault seeded: the sign is applied after
\* the last term.
parse_arexpr_sign_last(S) ==
    IF TokIn(S, {"+", "-"})
    THEN Then(next_token(S),
              <<F("term"), F("arexpr_loop"), FS("arexpr_sign", S.token.s)>>)
    ELSE Then(S, <<F("term"), F("arexpr_loop"), FS("arexpr_sign", "+")>>)

\* arexpr = ['+' | '-'] term { ('+' | '-') term }
parse_arexpr(S) ==
    IF TokIn(S, {"+", "-"})
    THEN Then(next_token(S),
              <<F("term"), FS("arexpr_sign", S.token.s), F("arexpr_loop")>>)
    ELSE Then(S, <<F("term"), FS("arexpr_sign", "+"), F("arexpr_loop")>>)

\* parse_arexpr after its first parse_term
arexpr_sign(S, sign) == IF sign = "-" THEN Emit(S, Op("NEG")) ELSE S

\* A variant of arexpr_loop with a fault seeded: the operator is appended
\* after the rest of the expression.
arexpr_loop_right(S) ==
    IF ~TokIn(S, {"+", "-"}) THEN S
    ELSE Then(next_token(S),
              <<F("term"), F("arexpr_loop"), FS("append", S.token.s)>>)

\* the while loop of parse_arexpr
arexpr_loop(S) ==
    IF ~TokIn(S, {"+", "-"}) THEN S
    ELSE Then(next_token(S),
              <<F("term"), FS("append", S.token.s), F("arexpr_loop")>>)

\* term = factor { ('*' | '/') factor }
parse_term(S) == Then(S, <<F("factor"), F("term_loop")>>)

\* the while loop of parse_term
term_loop(S) ==
    IF ~TokIn(S, {"*", "/"}) THEN S
    ELSE Then(next_token(S),
              <<F("factor"), FS("append", S.token.s), F("term_loop")>>)

\* factor = primary {args} | NUMBER | '(' exprlist ')'
parse_factor(S) ==
    IF start_primary(S.token) THEN Then(S, <<F("primary"), F("factor_loop")>>)
    ELSE IF S.token.type = "Number"
        THEN next_token(Emit(S, RValue(S.token.val)))
    ELSE IF TokIs(S, "(")
        THEN Then(next_token(S), <<F("exprlist"), FS("expects", ")")>>)
    ELSE ErrorGot(S, "Expected number, varname or '(', but got ",
                  "parse_factor")

\* the while loop of parse_factor
factor_loop(S) ==
    IF ~TokIs(S, "(") THEN S ELSE Then(S, <<F("args"), F("factor_loop")>>)

\* parse_primary after the identifier varname
primary_id(S, varname) ==
    IF S.exc # NoExc THEN S
    ELSE IF TokIs(S, "=")
        THEN Then(Emit(next_token(S), LValue(StrV(varname))),
                  <<F("expr"), FS("append", "=")>>)
    ELSE Emit(S, ID(varname))

\* statement = if_statement | while_statement
parse_statement(S) ==
    IF TokIs(S, "if") THEN Then(S, <<F("if_statement")>>)
    ELSE IF TokIs(S, "while") THEN Then(S, <<F("while_statement")>>)
    ELSE ErrorGot(S, "expected statement, but got ", "parse_statement")

\* primary = ID ['=' expr] | valkeyword | statement
parse_primary(S) ==
    IF S.token.type = "ID" THEN primary_id(next_token(S), S.token.s)
    ELSE IF TokIn(S, VALKEYWORDS)
        THEN next_token(Emit(S, RValue(VALKEYWORD(S.token.s))))
    ELSE IF TokIn(S, STATKEYWORD) THEN parse_statement(S)
    ELSE ErrorGot(S, "Expected primary, but got ", "parse_primary")

\* if_statement = "if" expr "then" exprlist [ "else" exprlist ] "end"
parse_if_statement(S) ==
    Then(expects(S, "if"), <<F("expr"), FS("expects", "then"), F("if_then")>>)

\* parse_if_statement from to_else = OnFalseJump(0); to_else is kept as the
\* index of that instruction.
if_then(S) ==
    Then(Emit(S, OnFalseJump(0)),
         <<F("exprlist"), FI("if_else", Len(S.code), 0)>>)

\* A variant of if_else with a fault seeded: without an else no LValue(None)
\* is appended.
if_else_no_value(S, to_else) ==
    IF TokIs(S, "else")
    THEN Then(next_token(Patch(Emit(S, Jump(0)), to_else)),
              <<F("exprlist"), FI("if_end", Len(S.code), 0)>>)
    ELSE Then(Patch(Emit(S, Jump(0)), to_else),
              <<FI("if_end", Len(S.code), 0)>>)

\* parse_if_statement from to_end = Jump(0); to_end is kept as the index of
\* that instruction.
if_else(S, to_else) ==
    IF TokIs(S, "else")
    THEN Then(next_token(Patch(Emit(S, Jump(0)), to_else)),
              <<F("exprlist"), FI("if_end", Len(S.code), 0)>>)
    ELSE Then(Emit(Patch(Emit(S, Jump(0)), to_else), LValue(NoneV)),
              <<FI("if_end", Len(S.code), 0)>>)

\* A variant of if_end with a fault seeded: the Jump keeps its target 0.
if_end_unpatched(S, to_end) == expects(S, "end")

\* parse_if_statement from to_end.target = len(code)
if_end(S, to_end) == expects(Patch(S, to_end), "end")

\* A variant of parse_while_statement with a fault seeded: no Null is pushed
\* before the loop.
parse_while_no_null(S) ==
    Then(expects(S, "while"),
         <<F("expr"), FS("expects", "do"), FI("while_do", Len(S.code), 0)>>)

\* while_statement = "while" expr "do" exprlist "end"
parse_while_statement(S) ==
    Then(Emit(expects(S, "while"), LValue(NoneV)),
         <<F("expr"), FS("expects", "do"), FI("while_do", Len(S.code) + 1, 0)>>)

\* A variant of while_do with a fault seeded: DROP comes before OnFalseJump.
while_do_drop_first(S, start_loop) ==
    Then(Emit(Emit(S, Op("DROP")), OnFalseJump(0)),
         <<F("exprlist"), FI("while_end", start_loop, Len(S.code) + 1)>>)

\* parse_while_statement from to_exit = OnFalseJump(0); to_exit is kept as
\* the index of that instruction.
while_do(S, start_loop) ==
    Then(Emit(Emit(S, OnFalseJump(0)), Op("DROP")),
         <<F("exprlist"), FI("while_end", start_loop, Len(S.code))>>)

\* A variant of while_end with a fault seeded: the closing Jump leaves the
\* loop.
while_end_once(S, start_loop, to_exit) ==
    expects(Patch(Emit(S, Jump(Len(S.code) + 1)), to_exit), "end")

\* parse_while_statement from code.append(Jump(start_loop))
while_end(S, start_loop, to_exit) ==
    expects(Patch(Emit(S, Jump(start_loop)), to_exit), "end")

\* A variant of parse_args with a fault seeded: the empty list is appended
\* under a name evaluate does not know.
parse_args_list(S) ==
    Then(Emit(expects(S, "("), Op("LIST")),
         <<F("args_first"), FS("expects", ")"), FS("append", "CALL")>>)

\* args = '(' [expr {',' expr}] ')'
parse_args(S) ==
    Then(Emit(expects(S, "("), Op("[]")),
         <<F("args_first"), FS("expects", ")"), FS("append", "CALL")>>)

\* A variant of args_first with a fault seeded: the first argument is not
\* appended.
args_first_no_append(S) ==
    IF TokIs(S, ")") THEN S ELSE Then(S, <<F("expr"), F("args_loop")>>)

\* parse_args: the if statement
args_first(S) ==
    IF TokIs(S, ")") THEN S
    ELSE Then(S, <<F("expr"), FS("append", "APPEND"), F("args_loop")>>)

\* the while loop of parse_args
args_loop(S) ==
    IF ~TokIs(S, ",") THEN S
    ELSE Then(next_token(S),
              <<F("expr"), FS("append", "APPEND"), F("args_loop")>>)

\* The compilation is over: an exception was raised or the outermost
\* function has returned.
Halted(S) == S.exc # NoExc \/ S.k = <<>>

\* One step: control goes to the place the top frame f names.
ParseStep(S0) ==
    LET f == S0.k[Len(S0.k)]
        S == [S0 EXCEPT !.k = SubSeq(@, 1, Len(@) - 1)]
    IN  CASE f.fn = "exprlist" -> parse_exprlist(S)
          [] f.fn = "exprlist_loop" -> exprlist_loop(S)
          [] f.fn = "expr" -> parse_expr(S)
          [] f.fn = "expr_relop" -> expr_relop(S)
          [] f.fn = "arexpr" -> parse_arexpr(S)
          [] f.fn = "arexpr_sign" -> arexpr_sign(S, f.s)
          [] f.fn = "arexpr_loop" -> arexpr_loop(S)
          [] f.fn = "term" -> parse_term(S)
          [] f.fn = "term_loop" -> term_loop(S)
          [] f.fn = "factor" -> parse_factor(S)
          [] f.fn = "factor_loop" -> factor_loop(S)
          [] f.fn = "primary" -> parse_primary(S)
          [] f.fn = "if_statement" -> parse_if_statement(S)
          [] f.fn = "if_then" -> if_then(S)
          [] f.fn = "if_else" -> if_else(S, f.a)
          [] f.fn = "if_end" -> if_end(S, f.a)
          [] f.fn = "while_statement" -> parse_while_statement(S)
          [] f.fn = "while_do" -> while_do(S, f.a)
          [] f.fn = "while_end" -> while_end(S, f.a, f.b)
          [] f.fn = "args" -> parse_args(S)
          [] f.fn = "args_first" -> args_first(S)
          [] f.fn = "args_loop" -> args_loop(S)
          [] f.fn = "expects" -> expects(S, f.s)
          [] f.fn = "append" -> append(S, f.s)

\* 2^n steps, or as many as there are
RECURSIVE ParseSteps(_, _)
ParseSteps(S, n) ==
    IF Halted(S) THEN S
    ELSE IF n = 0 THEN ParseStep(S)
    ELSE ParseSteps(ParseSteps(S, n - 1), n - 1)

\* All the steps there are
RECURSIVE ParseFrom(_, _)
ParseFrom(S, n) == IF Halted(S) THEN S ELSE ParseFrom(ParseSteps(S, n), n + 1)

\* parse_program(code, lexer) from its call to its return or exception
ParseProgram(S) == ParseFrom(parse_program(S), 0)

\* fin.read() on a file opened in text mode, whose characters are src: a
\* carriage return with the line feed after it, and a carriage return
\* alone, are read as one line feed.
read(src) ==
    LET lines == [i \in 1 .. Len(src) |->
                     IF src[i] = "\r" THEN "\n"
                     ELSE IF src[i] = "\n" /\ i > 1 /\ src[i - 1] = "\r" THEN ""
                     ELSE src[i]]
        Kept(c) == c # ""
    IN  SelectSeq(lines, Kept)

\* Lexer.__init__, and then parse_program on an empty tape: what main does
\* up to evaluate.
NewLexer(src) ==
    next_token([text |-> read(src), row |-> 1, col |-> 1, token |-> StrTok(""),
                code |-> <<>>, exc |-> NoExc, k |-> <<>>])

Compile(src) == ParseProgram(NewLexer(src))

-----------------------------------------------------------------------------
(* The virtual machine's operations on values.  A result is a record: exc  *)
(* is the Python exception the operation raises ("" when none), val its    *)
(* value, and known is FALSE when the model does not compute the value: a  *)
(* number beyond MaxInt, a float that is not a small binary fraction (its  *)
(* arithmetic would round), arithmetic on math.pi and math.e, and          *)
(* operands a compiled tape never gives an operator (lists, names).        *)

Ok(v) == [exc |-> "", val |-> v, known |-> TRUE]

Fails(kind) == [exc |-> kind, val |-> NoneV, known |-> TRUE]

Unknown == [exc |-> "", val |-> NoneV, known |-> FALSE]

\* int, float and bool are Python's numbers: bool is a subclass of int.
IsNum(v) == v.t \in {"int", "bool", "float"}

IsSym(v) == v.t = "float" /\ v.d = 0

RECURSIVE IsPow2(_)
IsPow2(k) == k = 1 \/ (k > 1 /\ k % 2 = 0 /\ IsPow2(k \div 2))

\* A number the model computes with: within MaxInt, and exact as a float.
Exact(v) ==
    /\ IsNum(v) /\ ~IsSym(v)
    /\ IsPow2(v.d) /\ v.d <= MaxInt
    /\ Abs(v.n) <= MaxInt * v.d

\* The number num/den (den # 0) as a float if isfloat and as an int if not.
Num(num, den, isfloat) ==
    LET v == IF isfloat
             THEN FloatV(IF den < 0 THEN -num ELSE num, Abs(den))
             ELSE IntV(num)
    IN  IF Exact(v) THEN Ok(v) ELSE Unknown

\* The sign of a number as a float: set on the negative numbers and on -0.0
IsNegative(v) == v.n < 0 \/ v = NegZero

\* The float result r of an operation, with the sign IEEE 754 gives a zero
Signed(r, negative) ==
    IF r.known /\ r.exc = "" /\ r.val = FloatV(0, 1) /\ negative
    THEN Ok(NegZero) ELSE r

\* A variant of Falsy with a fault seeded: False and None alone are false.
FalsyFalseNone(v) == v.t \in {"bool", "NoneType"} /\ v.n = 0

\* `not v`: False, None, a zero number and an empty list or string are
\* false, every other value is true.
Falsy(v) ==
    CASE v.t = "bool" -> v.n = 0
      [] v.t = "NoneType" -> TRUE
      [] v.t = "int" -> v.n = 0
      [] v.t = "float" -> ~IsSym(v) /\ v.n = 0
      [] v.t = "list" -> v.l = <<>>
      [] v.t = "str" -> v.s = ""
      [] v.t = "builtin" -> FALSE

\* x + y, x - y, x * y on numbers.  A float sum of two zeros is -0.0 when
\* both are -0.0, a difference when x is -0.0 and y is not (x - y is
\* x + (-y)), and a zero product has the sign of x times the sign of y.
Arith(op, x, y) ==
    LET isfloat == x.t = "float" \/ y.t = "float"
    IN  IF ~(Exact(x) /\ Exact(y)) THEN Unknown
        ELSE CASE op = "+" ->
                    Signed(Num(x.n * y.d + y.n * x.d, x.d * y.d, isfloat),
                           x = NegZero /\ y = NegZero)
               [] op = "-" ->
                    Signed(Num(x.n * y.d - y.n * x.d, x.d * y.d, isfloat),
                           x = NegZero /\ y.n = 0 /\ y # NegZero)
               [] op = "*" ->
                    Signed(Num(x.n * y.n, x.d * y.d, isfloat),
                           IsNegative(x) # IsNegative(y))

\* x / y on numbers: true division, and ZeroDivisionError for a zero y; a
\* zero quotient has the sign of x times the sign of y.
TrueDiv(x, y) ==
    IF ~IsSym(y) /\ y.n = 0 THEN Fails("ZeroDivisionError")
    ELSE IF ~(Exact(x) /\ Exact(y)) THEN Unknown
    ELSE Signed(Num(x.n * y.d, x.d * y.n, TRUE), IsNegative(x) # IsNegative(y))

\* x < y, x > y, x <= y, x >= y on numbers
Order(op, x, y) ==
    LET a == x.n * y.d
        b == y.n * x.d
    IN  IF IsSym(x) \/ IsSym(y) THEN Unknown
        ELSE CASE op = "<" -> Ok(BoolV(a < b))
               [] op = ">" -> Ok(BoolV(a > b))
               [] op = "<=" -> Ok(BoolV(a <= b))
               [] op = ">=" -> Ok(BoolV(a >= b))

\* A variant of Equal with a fault seeded: as the ordering does, it raises
\* TypeError unless both operands are numbers.
EqualOfNumbers(x, y) ==
    IF IsNum(x) /\ IsNum(y)
    THEN IF IsSym(x) \/ IsSym(y)
         THEN IF x = y THEN Ok(BoolV(TRUE)) ELSE Unknown
         ELSE Ok(BoolV(x.n * y.d = y.n * x.d))
    ELSE Fails("TypeError")

\* x == y: numbers by value, None and the built-ins by identity
Equal(x, y) ==
    IF IsNum(x) /\ IsNum(y)
    THEN IF IsSym(x) \/ IsSym(y)
         THEN IF x = y THEN Ok(BoolV(TRUE)) ELSE Unknown
         ELSE Ok(BoolV(x.n * y.d = y.n * x.d))
    ELSE IF x.t \in {"list", "str"} \/ y.t \in {"list", "str"} THEN Unknown
    ELSE Ok(BoolV(x = y))

Not(r) == IF r.known /\ r.exc = "" THEN Ok(BoolV(r.val.n = 0)) ELSE r

\* func(*args): math.sin takes one number, print takes anything and
\* returns None; any other value is not callable.
Call(func, args) ==
    IF func.t # "builtin" THEN Fails("TypeError")
    ELSE IF args.t # "list" THEN Unknown
    ELSE IF func.s = "print" THEN Ok(NoneV)
    ELSE IF Len(args.l) # 1 THEN Fails("TypeError")
    ELSE IF ~IsNum(args.l[1]) THEN Fails("TypeError")
    ELSE IF args.l[1] = NegZero THEN Ok(NegZero)
    ELSE IF ~IsSym(args.l[1]) /\ args.l[1].n = 0 THEN Ok(FloatV(0, 1))
    ELSE Unknown

\* BINARY[op](x, y)
BINARY(op, x, y) ==
    CASE op \in {"+", "-", "*"} ->
            IF IsNum(x) /\ IsNum(y) THEN Arith(op, x, y)
            ELSE IF x.t \in {"list", "str"} \/ y.t \in {"list", "str"}
                THEN Unknown
            ELSE Fails("TypeError")
      [] op = "/" ->
            IF IsNum(x) /\ IsNum(y) THEN TrueDiv(x, y) ELSE Fails("TypeError")
      [] op = "APPEND" ->
            IF x.t = "list" THEN Ok(ListV(Append(x.l, y)))
            ELSE Fails("TypeError")
      [] op = "CALL" -> Call(x, y)
      [] op \in {"<", ">", "<=", ">="} ->
            IF IsNum(x) /\ IsNum(y) THEN Order(op, x, y)
            ELSE IF x.t \in {"list", "str"} \/ y.t \in {"list", "str"}
                THEN Unknown
            ELSE Fails("TypeError")
      [] op = "==" -> Equal(x, y)
      [] op = "!=" -> Not(Equal(x, y))

BINARYOPS ==
    {"+", "-", "*", "/", "APPEND", "CALL", "<", ">", "<=", ">=", "==", "!="}

\* -x: the negation of the float 0.0 is -0.0, that of the int 0 is 0
Neg(x) ==
    IF ~IsNum(x) THEN Fails("TypeError")
    ELSE IF ~Exact(x) THEN Unknown
    ELSE Signed(Num(-x.n, x.d, x.t = "float"), x = FloatV(0, 1))

\* evaluate's initial environment
BuiltinEnv ==
    [name \in {"pi", "e", "sin", "print"} |->
        CASE name = "pi" -> SymV("pi")
          [] name = "e" -> SymV("e")
          [] name = "sin" -> FuncV("sin")
          [] name = "print" -> FuncV("print")]

-----------------------------------------------------------------------------
(* The source texts the model runs main on. *)

RawAlphabet == {"a", "1", " ", "\n", "$", "(", "=", "!"}

RECURSIVE SeqsUpTo(_, _)
SeqsUpTo(A, k) ==
    IF k = 0 THEN {<<>>}
    ELSE LET shorter == SeqsUpTo(A, k - 1)
         IN  shorter \cup {Append(q, c) : q \in shorter, c \in A}

RawTexts == SeqsUpTo(RawAlphabet, MaxChars)

\* The text of a sequence of lexemes: a space between two lexemes
RECURSIVE SourceOf(_)
SourceOf(lexemes) ==
    IF lexemes = <<>> THEN <<>>
    ELSE IF Len(lexemes) = 1 THEN Spell(lexemes[1])
    ELSE Spell(lexemes[1]) \o <<" ">> \o SourceOf(Tail(lexemes))

\* Every sequence of at most MaxToks of these lexemes
TokVocab == {"0", "1", "a", "NONE", "(", ")", "+", "-", "/", "=", ";"}

TokTexts == {SourceOf(q) : q \in SeqsUpTo(TokVocab, MaxToks)}

\* The constructs of the grammar, on sequences of lexemes
Seq2(x, y) == x \o <<";">> \o y

Seq3(x, y, z) == x \o <<";">> \o y \o <<";">> \o z

Paren(x) == <<"(">> \o x \o <<")">>

IfThen(c, t) == <<"if">> \o c \o <<"then">> \o t \o <<"end">>

IfElse(c, t, e) ==
    <<"if">> \o c \o <<"then">> \o t \o <<"else">> \o e \o <<"end">>

While(c, body) == <<"while">> \o c \o <<"do">> \o body \o <<"end">>

CallOf(f, arg) == <<f, "(">> \o arg \o <<")">>

\* Conditions: each kind of value, an unbound name, a comparison, a call
Conds ==
    {<<"0">>, <<"1">>, <<"0.0">>, <<"0.5">>, <<"FALSE">>, <<"TRUE">>,
     <<"NONE">>, <<"sin">>, <<"pi">>, <<"b">>, <<"1", "<", "0">>,
     <<"0", "==", "0.0">>, CallOf("sin", <<"0">>), CallOf("print", <<>>)}

Branches == {<<"1">>, <<"a", "=", "1">>, CallOf("print", <<"1">>)}

IfPrograms ==
    {IfThen(c, t) : c \in Conds, t \in Branches}
    \cup {IfElse(c, t, <<"2">>) : c \in Conds, t \in Branches}
    \cup {Seq2(IfThen(c, <<"a", "=", "1">>), <<"a">>) : c \in Conds}
    \cup {Seq2(IfElse(c, <<"1">>, <<"a", "=", "1">>), <<"a">>) : c \in Conds}
    \cup {IfThen(c, IfElse(d, <<"1">>, <<"2">>)) :
             c \in {<<"0">>, <<"1">>}, d \in {<<"NONE">>, <<"TRUE">>}}

\* if with an else, each branch leaving its own trace
ElseBranches == {<<"2">>, <<"b", "=", "2">>, CallOf("print", <<"2">>)}

BranchPrograms == {IfElse(c, t, e) : c \in Conds, t \in Branches, e \in ElseBranches}

\* Loops that count a up to 2, from each of 0 .. 3
Incr == <<"a", "=", "a", "+", "1">>

Bodies ==
    {Incr,
     Seq2(CallOf("print", <<"a">>), Incr),
     Seq2(Incr, <<"b", "=", "a">>),
     Seq2(IfThen(<<"a">>, CallOf("print", <<"a">>)), Incr),
     Seq2(IfElse(<<"a", "<", "1">>, <<"b", "=", "0">>, <<"b", "=", "1">>), Incr),
     Seq2(Seq2(<<"b", "=", "a">>,
               While(<<"b", "<", "1">>,
                     Seq2(<<"b", "=", "b", "+", "1">>, CallOf("print", <<"b">>)))),
          Incr)}

WhilePrograms ==
    {Seq2(<<"a", "=", v>>, While(<<"a", "<", "2">>, body)) :
        v \in {"0", "1", "2", "3"}, body \in Bodies}
    \cup {Seq2(Seq2(<<"a", "=", v>>, While(<<"a", "<", "2">>, body)), <<"b">>) :
             v \in {"0", "1", "2"}, body \in Bodies}
    \cup {While(c, <<"1">>) : c \in Conds}
    \cup {While(<<"1">>, CallOf("print", <<"1">>))}
    \cup {IfThen(c, Seq2(<<"a", "=", "1">>, While(<<"a", "<", "2">>, Incr))) :
             c \in {<<"0">>, <<"1">>}}

\* Each operator on each kind of operand
Operands == {<<"0">>, <<"1">>, <<"2">>, <<"0.5">>, <<"TRUE">>, <<"NONE">>,
             <<"sin">>, <<"b">>}

OpPrograms ==
    {x \o <<o>> \o y : x \in Operands, y \in Operands,
                       o \in {"+", "-", "*", "/", "<", "<=", ">", ">=", "==",
                              "!="}}
    \cup {<<s>> \o x : s \in {"+", "-"}, x \in Operands}
    \cup {x \o Paren(y) : x \in Operands, y \in Operands \cup {<<>>}}
    \cup {CallOf(f, <<"1", ",", "2">>) : f \in {"sin", "print", "b"}}
    \cup {CallOf("print", CallOf("print", <<"1">>)),
          CallOf("sin", <<"0">>) \o Paren(<<>>),
          <<"1", "+", "1", "*", "2">>, <<"(", "1", "+", "2", ")", "*", "0.5">>,
          <<"-", "1", "+", "2">>, <<"2", "-", "1", "-", "1">>,
          <<"a", "=", "b", "=", "1">>}

\* i = 0; while i < N do i = i + 1 end; i
CountProgram(N) ==
    Seq3(<<"i", "=", "0">>,
         While(<<"i", "<", ToString(N)>>, <<"i", "=", "i", "+", "1">>),
         <<"i">>)

CountPrograms == {CountProgram(N) : N \in 0 .. MaxInt}

\* if and while nested in one another, two deep
Nest0 == {<<"2">>}

NestConds == {<<"0">>, <<"1">>}

Nested(inner) ==
    {IfThen(c, x) : c \in NestConds, x \in inner}
    \cup {IfElse(c, x, y) : c \in NestConds, x \in inner, y \in inner}
    \cup {While(c, x) : c \in NestConds, x \in inner}

Nest1 == Nest0 \cup Nested(Nest0)

NestPrograms == Nested(Nest1)

\* Arithmetic expressions, in postfix form: a literal, or two expressions and
\* an operator.  Two levels of operators over the literals 1 and 2, and the
\* two expressions 7 - 2 - 1 and 1 + 2 * 3.
ArithOps == {"+", "-", "*"}

Postfix1 ==
    {<<l>> : l \in {"1", "2"}}
    \cup {<<l, r, o>> : l \in {"1", "2"}, r \in {"1", "2"}, o \in ArithOps}

Postfixes ==
    Postfix1
    \cup {x \o y \o <<o>> : x \in Postfix1, y \in Postfix1, o \in ArithOps}
    \cup {<<"7", "2", "-", "1", "-">>, <<"1", "2", "3", "*", "+">>}

\* How tightly an operator binds
Prec(o) == IF o = "*" THEN 2 ELSE 1

\* The expression written with operators between operands, from the postfix
\* form p read from its element i on; st holds the subexpressions written so
\* far, each with the precedence of its operator (3 for a literal).  An
\* operand is parenthesised when its operator binds less tightly than the
\* operator applied to it, and a right operand also when it binds equally.
RECURSIVE InfixFrom(_, _, _)
InfixFrom(p, i, st) ==
    IF i > Len(p) THEN st[Len(st)].lex
    ELSE IF p[i] \notin ArithOps
        THEN InfixFrom(p, i + 1, Append(st, [lex |-> <<p[i]>>, prec |-> 3]))
    ELSE LET x == st[Len(st) - 1]
             y == st[Len(st)]
             left == IF x.prec < Prec(p[i]) THEN Paren(x.lex) ELSE x.lex
             right == IF y.prec <= Prec(p[i]) THEN Paren(y.lex) ELSE y.lex
         IN  InfixFrom(p, i + 1,
                       Append(SubSeq(st, 1, Len(st) - 2),
                              [lex |-> left \o <<p[i]>> \o right,
                               prec |-> Prec(p[i])]))

Infix(p) == InfixFrom(p, 1, <<>>)

\* The value of the postfix form p read from its element i on, in integers:
\* an operator applies to the two values on top of st, the lower one on its
\* left.
RECURSIVE ValueFrom(_, _, _)
ValueFrom(p, i, st) ==
    IF i > Len(p) THEN st[Len(st)]
    ELSE IF p[i] \notin ArithOps
        THEN ValueFrom(p, i + 1, Append(st, DigitVal(p[i])))
    ELSE LET x == st[Len(st) - 1]
             y == st[Len(st)]
             z == CASE p[i] = "+" -> x + y
                    [] p[i] = "-" -> x - y
                    [] p[i] = "*" -> x * y
         IN  ValueFrom(p, i + 1, Append(SubSeq(st, 1, Len(st) - 2), z))

PostfixValue(p) == ValueFrom(p, 1, <<>>)

\* Those whose value the model computes
ArithPrograms == {Infix(p) : p \in {q \in Postfixes : Abs(PostfixValue(q)) <= MaxInt}}

\* Signed expressions: a sign or none, a first term, and further terms each
\* with its + or -.  A term comes with its value; the value of 2 / 2 is a
\* float.
SignTerms ==
    {[lex |-> <<"2">>, val |-> 2, float |-> FALSE],
     [lex |-> <<"3">>, val |-> 3, float |-> FALSE],
     [lex |-> <<"2", "*", "3">>, val |-> 6, float |-> FALSE],
     [lex |-> <<"1", "*", "2">>, val |-> 2, float |-> FALSE],
     [lex |-> Paren(<<"1", "+", "1">>), val |-> 2, float |-> FALSE],
     [lex |-> <<"2", "/", "2">>, val |-> 1, float |-> TRUE]}

SignRests ==
    {<<>>}
    \cup {<<[op |-> o, term |-> t]>> : o \in {"+", "-"}, t \in SignTerms}
    \cup {<<[op |-> "-", term |-> t], [op |-> "+", term |-> t]>> :
            t \in SignTerms}

RECURSIVE RestLexemes(_)
RestLexemes(rest) ==
    IF rest = <<>> THEN <<>>
    ELSE <<rest[1].op>> \o rest[1].term.lex \o RestLexemes(Tail(rest))

SignedExpr(sign, t, rest) ==
    (IF sign = "" THEN <<>> ELSE <<sign>>) \o t.lex \o RestLexemes(rest)

\* v, then each further term added or subtracted in its turn
RECURSIVE RestValue(_, _)
RestValue(v, rest) ==
    IF rest = <<>> THEN v
    ELSE RestValue(IF rest[1].op = "+" THEN v + rest[1].term.val
                   ELSE v - rest[1].term.val, Tail(rest))

\* The sign applies to the first term alone
SignedValue(sign, t, rest) ==
    RestValue(IF sign = "-" THEN -t.val ELSE t.val, rest)

\* Those whose value the model computes, after each of the terms
SignCases ==
    {c \in [sign : {"", "+", "-"}, t : SignTerms, rest : SignRests] :
        \A j \in 0 .. Len(c.rest) :
            Abs(SignedValue(c.sign, c.t, SubSeq(c.rest, 1, j))) <= MaxInt}

SignPrograms == {SignedExpr(c.sign, c.t, c.rest) : c \in SignCases}

\* Calls: a callee and its argument lists, each a sequence of expressions
RECURSIVE Commas(_)
Commas(args) ==
    IF args = <<>> THEN <<>>
    ELSE IF Len(args) = 1 THEN args[1]
    ELSE args[1] \o <<",">> \o Commas(Tail(args))

RECURSIVE ArgLists(_)
ArgLists(lists) ==
    IF lists = <<>> THEN <<>>
    ELSE Paren(Commas(lists[1])) \o ArgLists(Tail(lists))

ArgExprs == {<<"0">>, <<"a", "=", "1">>, <<"a">>}

\* print with up to three arguments, sin with up to two, and two argument
\* lists in a row
CallCases ==
    {[f |-> "print", lists |-> <<args>>] : args \in SeqsUpTo(ArgExprs, 3)}
    \cup {[f |-> "sin", lists |-> <<args>>] : args \in SeqsUpTo({<<"0">>}, 2)}
    \cup {[f |-> "print", lists |-> <<x, y>>] :
            x \in SeqsUpTo({<<"0">>}, 1), y \in SeqsUpTo(ArgExprs, 2)}

CallPrograms == {<<c.f>> \o ArgLists(c.lists) : c \in CallCases}

\* x = v; x + 1 for the integers v whose successor is within MaxInt
AssignPrograms ==
    {Seq2(<<"a", "=", ToString(v)>>, <<"a", "+", "1">>) : v \in 0 .. MaxInt - 1}
    \cup {Seq3(<<"a", "=", "1">>, <<"a", "=", "a", "+", "1">>, <<"a", "+", "1">>),
          Seq3(<<"a", "=", "1">>, <<"b", "=", "2">>, <<"a", "+", "b">>),
          Seq2(<<"pi", "=", "1">>, <<"pi", "+", "1">>),
          <<"(", "a", "=", "1", ")", "+", "a">>,
          <<"a", "+", "(", "a", "=", "1", ")">>}

\* Exprlists of three expressions, at top level, in parentheses, in an if
\* and in a while: pre and post are the lexemes around the three, off is the
\* number of instructions before theirs, and bound holds the names pre has
\* bound to 1 when they are reached.
Items ==
    {<<"a", "=", "1">>, <<"a", "=", "2">>, <<"b", "=", "a">>,
     CallOf("print", <<"a">>), <<"3">>}

Contexts ==
    {[pre |-> <<>>, post |-> <<>>, off |-> 0, bound |-> {}],
     [pre |-> <<"(">>, post |-> <<")">>, off |-> 0, bound |-> {}],
     [pre |-> <<"if", "1", "then">>, post |-> <<"end">>, off |-> 2,
      bound |-> {}],
     [pre |-> <<"if", "0", "then", "1", "else">>, post |-> <<"end">>,
      off |-> 4, bound |-> {}],
     [pre |-> <<"c", "=", "0", ";", "while", "c", "<", "1", "do",
                "c", "=", "1", ";">>,
      post |-> <<"end">>, off |-> 14, bound |-> {"c"}]}

InContext(ctx, x, y, z) == ctx.pre \o Seq3(x, y, z) \o ctx.post

ExprlistPrograms ==
    {InContext(ctx, x, y, z) : ctx \in Contexts, x \in Items, y \in Items,
                               z \in Items}

\* Texts that are not programs: a fault after instructions were emitted, and
\* each kind of token where it cannot be.
Prefixes ==
    {<<>>, <<"1", ";">>, Seq2(CallOf("print", <<"1">>), <<>>),
     <<"a", "=", "1", ";">>, <<"(", "1", "+">>, <<"if", "1", "then", "1">>,
     <<"while", "0", "do">>, <<"print", "(", "1">>, <<"if", "1">>,
     <<"1">>, <<"a">>}

Unexpected ==
    {<<>>, <<"b">>, <<"bb">>, <<"2">>, <<"then">>, <<"end">>, <<"while">>,
     <<")">>, <<"*">>, <<"<=">>, <<",">>, <<"$">>, <<"!">>, <<"NONE">>}

FaultyTexts ==
    {SourceOf(p \o u) \o w : p \in Prefixes, u \in Unexpected,
                            w \in {<<>>, <<" ">>, <<"\n">>}}
    \cup {SourceOf(p) \o <<"\n", " ">> \o SourceOf(u) :
             p \in Prefixes, u \in Unexpected}

\* Texts with the line ends of a file (\r, \r\n, \n), white space, letters
\* and digits beyond ASCII, and characters that are numeric and no digits
LineEndAlphabet == {"1", "a", ".", "$", "\r", "\n", "", "²", "é", "½"}

LineEndTexts == SeqsUpTo(LineEndAlphabet, MaxChars)

\* Longer texts of the same kinds: white space other than the space between
\* tokens, a name of letters beyond ASCII, a digit that is not decimal in
\* and after a program, line ends before a token that cannot follow, and
\* letters, digits and white space beyond U+00FF
UnicodeTexts ==
    {Spell("1+1"), Spell("1\r\n2"), Spell("a\r\nb"), Spell("a\rbb"),
     Spell(" 1+1"), Spell("é = 1; éª + 1"),
     Spell("µ² = 1; print(µ²)"), Spell("a¼ = 1\r\n; a¼"),
     Spell("1 + ²"), Spell("1 + 1³"), Spell("1 + 1.¹"), Spell("1.5²"),
     Spell("print(1); 1²"), Spell("1 +\r\n ½"), Spell("1\r\r\n )"),
     Spell("1\r\n\r ×"), Spell("a = 1\r\n\n bb"),
     Spell("α = 1; α₂"), Spell("α₂ = 1; print(α₂ + ۱)"), Spell("۱ + ௧"),
     Spell("۱.۵ + 0.5"), Spell("1 + ₂"), Spell("1 + 1"), Spell("ん"),
     Spell("1 ➀"), Spell("𰂀 = 1; 𰂀𰂁"), Spell("א\r\n ↉")}

\* Programs whose value is a zero: a sign and x, an operator and y
ZeroPrograms ==
    {sign \o <<x, op>> \o y :
        sign \in {<<>>, <<"-">>}, x \in {"0", "0.0", "1"},
        op \in {"+", "-", "*", "/"},
        y \in {<<"0">>, <<"0.0">>, <<"1">>, Paren(<<"0", "-", "1">>),
               Paren(<<"-", "0.0">>)}}
    \cup {<<"-", "0.0">>, <<"-", "0">>, CallOf("print", <<"-", "0.0">>),
          CallOf("sin", <<"-", "0.0">>),
          IfElse(<<"-", "0.0">>, <<"1">>, <<"2">>),
          <<"-", "0.0", "==", "0.0">>, <<"-", "0.0", "<", "0">>,
          Seq2(<<"a", "=", "-", "0.0">>, <<"a", "*", "a">>)}

Programs ==
    RawTexts \cup TokTexts \cup FaultyTexts \cup LineEndTexts \cup UnicodeTexts
    \cup {SourceOf(q) : q \in ZeroPrograms}
    \cup {SourceOf(q) : q \in IfPrograms \cup WhilePrograms \cup OpPrograms
                               \cup AssignPrograms \cup ExprlistPrograms
                               \cup BranchPrograms \cup CountPrograms
                               \cup NestPrograms \cup ArithPrograms
                               \cup SignPrograms \cup CallPrograms}

-----------------------------------------------------------------------------
(* main and evaluate. *)

NoLexer == [text |-> <<>>, row |-> 0, col |-> 0, token |-> StrTok("")]

LexerOf(S) == [text |-> S.text, row |-> S.row, col |-> S.col, token |-> S.token]

Init ==
    /\ text \in Programs
    /\ lexer = NoLexer
    /\ code = <<>>
    /\ mainpc = "start"
    /\ stack = <<>>
    /\ env = BuiltinEnv
    /\ pc = 0
    /\ stdout = <<>>
    /\ stderr = <<>>
    /\ exc = NoExc

\* main: lexer = Lexer(argv[1]), which is outside the try statement.
Construct ==
    /\ mainpc = "start"
    /\ LET S == NewLexer(text)
       IN  /\ lexer' = LexerOf(S)
           /\ exc' = S.exc
           /\ mainpc' = IF Raised(S) THEN "crashed" ELSE "parse"
    /\ UNCHANGED <<text, code, stack, env, pc, stdout, stderr>>

\* A variant of Parse with a fault seeded: after the message is printed, main
\* goes on to evaluate.
ParseThenEvaluate ==
    /\ mainpc = "parse"
    /\ LET S == ParseProgram([text |-> lexer.text, row |-> lexer.row,
                               col |-> lexer.col, token |-> lexer.token,
                               code |-> <<>>, exc |-> NoExc, k |-> <<>>])
       IN  /\ lexer' = LexerOf(S)
           /\ code' = S.code
           /\ exc' = S.exc
           /\ mainpc' = IF ~Raised(S) \/ S.exc.kind = "SyntaxError"
                        THEN "evaluate" ELSE "crashed"
           /\ stderr' = IF Raised(S) /\ S.exc.kind = "SyntaxError"
                        THEN Append(stderr, S.exc.message) ELSE stderr
    /\ UNCHANGED <<text, stack, env, pc, stdout>>

\* main: code = []; parse_program(code, lexer), and the except clause, which
\* catches SyntaxError alone and prints its message.
Parse ==
    /\ mainpc = "parse"
    /\ LET S == ParseProgram([text |-> lexer.text, row |-> lexer.row,
                               col |-> lexer.col, token |-> lexer.token,
                               code |-> <<>>, exc |-> NoExc, k |-> <<>>])
       IN  /\ lexer' = LexerOf(S)
           /\ code' = S.code
           /\ exc' = S.exc
           /\ mainpc' = IF ~Raised(S) THEN "evaluate"
                        ELSE IF S.exc.kind = "SyntaxError" THEN "reported"
                        ELSE "crashed"
           /\ stderr' = IF Raised(S) /\ S.exc.kind = "SyntaxError"
                        THEN Append(stderr, S.exc.message) ELSE stderr
    /\ UNCHANGED <<text, stack, env, pc, stdout>>

\* evaluate, up to its loop
EvaluateStart ==
    /\ mainpc = "evaluate"
    /\ stack' = <<>>
    /\ env' = BuiltinEnv
    /\ pc' = 0
    /\ mainpc' = "run"
    /\ UNCHANGED <<text, lexer, code, stdout, stderr, exc>>

Running == mainpc = "run" /\ pc < Len(code)

Cur == code[pc + 1]

IsOp(cur, str) == cur.type = "str" /\ cur.s = str

\* stack[-1], stack[-2] and the stack after k pops
Top(st) == st[Len(st)]

Second(st) == st[Len(st) - 1]

Popped(st, k) == SubSeq(st, 1, Len(st) - k)

\* The exception one turn of evaluate's loop raises on instruction cur, ""
\* when none: IndexError is list.pop() of an empty stack, KeyError env[name]
\* of an unbound name, Exception the 'Bad instruction' of the last branch.
ExcOf(cur, st, en) ==
    CASE cur.type = "RValue" -> ""
      [] cur.type = "ID" -> IF cur.s \in DOMAIN en THEN "" ELSE "KeyError"
      [] cur.type = "str" /\ cur.s \in BINARYOPS ->
            IF Len(st) < 2 THEN "IndexError"
            ELSE BINARY(cur.s, Second(st), Top(st)).exc
      [] IsOp(cur, "NEG") ->
            IF Len(st) < 1 THEN "IndexError" ELSE Neg(Top(st)).exc
      [] cur.type = "LValue" -> ""
      [] IsOp(cur, "=") -> IF Len(st) < 2 THEN "IndexError" ELSE ""
      [] IsOp(cur, "DROP") -> IF Len(st) < 1 THEN "IndexError" ELSE ""
      [] IsOp(cur, "[]") -> ""
      [] cur.type = "OnFalseJump" -> IF Len(st) < 1 THEN "IndexError" ELSE ""
      [] cur.type = "Jump" -> ""
      [] OTHER -> "Exception"

\* The stack when the instruction cur raises: the values it popped before
\* that are gone.
StackAtRaise(cur, st) ==
    IF cur.type = "str" /\ cur.s \in BINARYOPS \cup {"="}
    THEN Popped(st, IF Len(st) < 2 THEN Len(st) ELSE 2)
    ELSE IF IsOp(cur, "NEG") /\ Len(st) >= 1 THEN Popped(st, 1)
    ELSE st

\* A variant of Raise with a fault seeded: the unbound name evaluates to None.
RaiseOrNone ==
    /\ Running
    /\ ExcOf(Cur, stack, env) # ""
    /\ IF ExcOf(Cur, stack, env) = "KeyError"
       THEN /\ stack' = Append(stack, NoneV)
            /\ pc' = pc + 1
            /\ UNCHANGED <<mainpc, exc>>
       ELSE /\ exc' = PyError(ExcOf(Cur, stack, env), "", "evaluate")
            /\ mainpc' = "crashed"
            /\ stack' = StackAtRaise(Cur, stack)
            /\ UNCHANGED pc
    /\ UNCHANGED <<text, lexer, code, env, stdout, stderr>>

\* An exception leaves evaluate and main: nothing there catches it.  The
\* operands were popped before the operation raised.
Raise ==
    /\ Running
    /\ ExcOf(Cur, stack, env) # ""
    /\ exc' = PyError(ExcOf(Cur, stack, env), "", "evaluate")
    /\ mainpc' = "crashed"
    /\ stack' = StackAtRaise(Cur, stack)
    /\ UNCHANGED <<text, lexer, code, env, pc, stdout, stderr>>

Normal == Running /\ ExcOf(Cur, stack, env) = ""

StepRValue ==
    /\ Normal /\ Cur.type = "RValue"
    /\ stack' = Append(stack, Cur.val)
    /\ pc' = pc + 1
    /\ UNCHANGED <<text, lexer, code, mainpc, env, stdout, stderr, exc>>

StepID ==
    /\ Normal /\ Cur.type = "ID"
    /\ stack' = Append(stack, env[Cur.s])
    /\ pc' = pc + 1
    /\ UNCHANGED <<text, lexer, code, mainpc, env, stdout, stderr, exc>>

\* print's side effect: its arguments are written
Printed(out, op, func, args) ==
    IF op = "CALL" /\ func = FuncV("print") THEN Append(out, args.l) ELSE out

StepBINARY ==
    /\ Normal /\ Cur.type = "str" /\ Cur.s \in BINARYOPS
    /\ LET y == Top(stack)
           x == Second(stack)
           r == BINARY(Cur.s, x, y)
       IN  /\ r.known
           /\ Len(Printed(stdout, Cur.s, x, y)) <= MaxPrint
           /\ stack' = Append(Popped(stack, 2), r.val)
           /\ stdout' = Printed(stdout, Cur.s, x, y)
    /\ pc' = pc + 1
    /\ UNCHANGED <<text, lexer, code, mainpc, env, stderr, exc>>

StepNEG ==
    /\ Normal /\ IsOp(Cur, "NEG")
    /\ Neg(Top(stack)).known
    /\ stack' = Append(Popped(stack, 1), Neg(Top(stack)).val)
    /\ pc' = pc + 1
    /\ UNCHANGED <<text, lexer, code, mainpc, env, stdout, stderr, exc>>

StepLValue ==
    /\ Normal /\ Cur.type = "LValue"
    /\ stack' = Append(stack, Cur.val)
    /\ pc' = pc + 1
    /\ UNCHANGED <<text, lexer, code, mainpc, env, stdout, stderr, exc>>

\* A variant of Bind with a fault seeded: a name that is bound keeps its value.
BindOnce(en, varname, value) ==
    [name \in DOMAIN en \cup {varname} |->
        IF name \in DOMAIN en THEN en[name] ELSE value]

\* env[varname] = value
Bind(en, varname, value) ==
    [name \in DOMAIN en \cup {varname} |->
        IF name = varname THEN value ELSE en[name]]

StepAssign ==
    /\ Normal /\ IsOp(Cur, "=")
    /\ LET value == Top(stack)
           varname == Second(stack)
       IN  /\ env' = Bind(env, varname.s, value)
           /\ stack' = Append(Popped(stack, 2), value)
    /\ pc' = pc + 1
    /\ UNCHANGED <<text, lexer, code, mainpc, stdout, stderr, exc>>

StepDROP ==
    /\ Normal /\ IsOp(Cur, "DROP")
    /\ stack' = Popped(stack, 1)
    /\ pc' = pc + 1
    /\ UNCHANGED <<text, lexer, code, mainpc, env, stdout, stderr, exc>>

StepList ==
    /\ Normal /\ IsOp(Cur, "[]")
    /\ stack' = Append(stack, ListV(<<>>))
    /\ pc' = pc + 1
    /\ UNCHANGED <<text, lexer, code, mainpc, env, stdout, stderr, exc>>

\* A variant of OnFalseJumpTo with a fault seeded: it never jumps.
OnFalseJumpNever(value, target, next) == next

\* The pc after OnFalseJump(target) has popped value
OnFalseJumpTo(value, target, next) == IF Falsy(value) THEN target ELSE next

StepOnFalseJump ==
    /\ Normal /\ Cur.type = "OnFalseJump"
    /\ stack' = Popped(stack, 1)
    /\ pc' = OnFalseJumpTo(Top(stack), Cur.target, pc + 1)
    /\ UNCHANGED <<text, lexer, code, mainpc, env, stdout, stderr, exc>>

StepJump ==
    /\ Normal /\ Cur.type = "Jump"
    /\ pc' = Cur.target
    /\ UNCHANGED <<text, lexer, code, mainpc, stack, env, stdout, stderr, exc>>

\* evaluate's loop ends when pc reaches len(code); main returns.
EvaluateReturn ==
    /\ mainpc = "run" /\ pc >= Len(code)
    /\ mainpc' = "done"
    /\ UNCHANGED <<text, lexer, code, stack, env, pc, stdout, stderr, exc>>

Next ==
    \/ Construct
    \/ Parse
    \/ EvaluateStart
    \/ StepRValue
    \/ StepID
    \/ StepBINARY
    \/ StepNEG
    \/ StepLValue
    \/ StepAssign
    \/ StepDROP
    \/ StepList
    \/ StepOnFalseJump
    \/ StepJump
    \/ Raise
    \/ EvaluateReturn

Spec == Init /\ [][Next]_vars

\* The steps of evaluate
evaluate ==
    \/ EvaluateStart
    \/ StepRValue
    \/ StepID
    \/ StepBINARY
    \/ StepNEG
    \/ StepLValue
    \/ StepAssign
    \/ StepDROP
    \/ StepList
    \/ StepOnFalseJump
    \/ StepJump
    \/ Raise
    \/ EvaluateReturn

\* main on the programs with loops and on those with one operator
LoopTexts ==
    {SourceOf(q) : q \in WhilePrograms \cup CountPrograms \cup OpPrograms}

LoopInit == text \in LoopTexts /\ Init

\* evaluate runs alone, in one thread: while it has a step to take, it takes
\* it.
FairSpec == LoopInit /\ [][Next]_vars /\ WF_vars(evaluate)

-----------------------------------------------------------------------------
(* Properties. *)

\* evaluate has raised an exception
RuntimeFault == mainpc = "crashed" /\ exc.site = "evaluate"

\* The parser has raised an exception where it found the token unexpected
ParserSites == {"expects", "parse_factor", "parse_primary", "parse_statement"}

ParserFault == exc.kind # "" /\ exc.site \in ParserSites

\* next_token has raised its exception
LexicalFault == exc.kind = "SyntaxError" /\ exc.site = "next_token"

\* The number of values an instruction pops
Pops(cur) ==
    IF cur.type = "str" /\ cur.s \in BINARYOPS \cup {"="} THEN 2
    ELSE IF cur.type = "OnFalseJump" \/ IsOp(cur, "NEG") \/ IsOp(cur, "DROP")
        THEN 1
    ELSE 0

(* C1: on the tape of a program that compiled, no instruction is reached    *)
(* with fewer values on the stack than it pops, no run ends with IndexError, *)
(* and when pc reaches len(code) the stack holds exactly one value.          *)
C1_NoUnderflowOneResult ==
    /\ Running => Len(stack) >= Pops(Cur)
    /\ exc.kind # "IndexError"
    /\ mainpc = "run" /\ pc >= Len(code) => Len(stack) = 1
    /\ mainpc = "done" => Len(stack) = 1

\* A run has ended whose tape holds a loop and a conditional, and which has
\* assigned and printed.
C1_LoopWithIfDone ==
    /\ mainpc = "done"
    /\ \E i \in 1 .. Len(code) : code[i].type = "Jump" /\ code[i].target < i
    /\ \E i \in 1 .. Len(code) : code[i].type = "Jump" /\ code[i].target >= i
    /\ stdout # <<>>
    /\ "a" \in DOMAIN env
    /\ Len(stack) = 1

(* C2, as the specification states it: when the parser finds the current   *)
(* token unexpected, compilation ends in a SyntaxError that main reports,   *)
(* and in no other exception.                                               *)
C2_OnlySyntaxErrors ==
    ParserFault => exc.kind = "SyntaxError" /\ mainpc = "reported"

(* C3: evaluate never fails by popping an empty stack or on a bad           *)
(* instruction; it fails with KeyError on the load of an unbound name, with *)
(* TypeError on an arithmetic or ordering instruction, CALL or NEG, and     *)
(* with ZeroDivisionError on "/"; "==", "!=" and APPEND do not fail.        *)
C3_RuntimeFaults ==
    RuntimeFault =>
        \/ exc.kind = "KeyError" /\ Cur.type = "ID" /\ Cur.s \notin DOMAIN env
        \/ /\ exc.kind = "TypeError"
           /\ Cur.type = "str"
           /\ Cur.s \in {"+", "-", "*", "/", "<", ">", "<=", ">=", "CALL", "NEG"}
        \/ exc.kind = "ZeroDivisionError" /\ IsOp(Cur, "/")

\* A division by zero has ended a run.
C3_DivisionByZero ==
    RuntimeFault /\ exc.kind = "ZeroDivisionError" /\ IsOp(Cur, "/")

(* C3, as the specification states it: evaluate fails only by popping an    *)
(* empty stack or on the load of an unbound name.                           *)
C3_OnlyUnderflowOrUnbound ==
    RuntimeFault => exc.kind \in {"IndexError", "KeyError"}

\* False, None and the numbers equal to zero
FalseNoneOrZero(v) ==
    \/ v = BoolV(FALSE)
    \/ v = NoneV
    \/ v.t \in {"int", "float"} /\ v.d # 0 /\ v.n = 0

IfZero == SourceOf(IfElse(<<"0">>, <<"1">>, <<"2">>))

(* C4: OnFalseJump pops one value and sets pc to its target exactly when    *)
(* the value is False, None or a number equal to zero (0, 0.0); on any      *)
(* other value pc becomes pc + 1.  So `if 0 then 1 else 2 end` yields 2.    *)
C4_JumpOnFalseNoneZero ==
    /\ [][Normal /\ Cur.type = "OnFalseJump" =>
             /\ stack' = Popped(stack, 1)
             /\ pc' = IF FalseNoneOrZero(Top(stack)) THEN Cur.target
                      ELSE pc + 1]_vars
    /\ [](text = IfZero /\ mainpc = "done" => stack = <<IntV(2)>>)

\* `if 0 then 1 else 2 end` has run to its end.
C4_IfZeroDone == text = IfZero /\ mainpc = "done" /\ stack = <<IntV(2)>>

(* C4, as the specification states it: OnFalseJump sets pc to its target    *)
(* exactly when the value is False or None, and `if 0 then 1 else 2 end`    *)
(* yields 1.                                                                *)
C4_JumpOnFalseNone ==
    /\ [][Normal /\ Cur.type = "OnFalseJump" =>
             /\ stack' = Popped(stack, 1)
             /\ pc' = IF Top(stack) \in {BoolV(FALSE), NoneV} THEN Cur.target
                      ELSE pc + 1]_vars
    /\ [](text = IfZero /\ mainpc = "done" => stack = <<IntV(1)>>)

\* The row and column of the character after the first k characters of cs:
\* 1 plus the newlines among the k, and 1 plus the characters after the last
\* of these newlines.
NewlinesIn(cs, k) == {i \in 1 .. k : cs[i] = "\n"}

RowAfter(cs, k) == 1 + Cardinality(NewlinesIn(cs, k))

LastNewline(cs, k) ==
    IF NewlinesIn(cs, k) = {} THEN 0
    ELSE CHOOSE i \in NewlinesIn(cs, k) : \A j \in NewlinesIn(cs, k) : j <= i

ColAfter(cs, k) == 1 + k - LastNewline(cs, k)

\* The number of characters the lexer has consumed of the text it has read
Consumed == Len(read(text)) - Len(lexer.text)

\* The number of characters of a token that is a string or an identifier
LexemeLen(tok) == IF tok = StrTok("EOF") THEN 0 ELSE Len(tok.s)

(* C5, as the specification states it: the row and column of a SyntaxError  *)
(* of the parser are those of the first character of the unexpected token.  *)
C5_FaultAtTokenStart ==
    ParserFault /\ exc.kind = "SyntaxError" =>
        /\ exc.row = RowAfter(read(text), Consumed - LexemeLen(lexer.token))
        /\ exc.col = ColAfter(read(text), Consumed - LexemeLen(lexer.token))

\* The characters of the texts of Programs by what the lexical grammar makes
\* of them, listed by hand: white space, letters, decimal digits, and the
\* other characters an identifier goes on with (digits that are not decimal,
\* fractions).  Any other character is an operator, a point, an exclamation
\* mark or a character of no token.
RefSpace == {"\t", "\n", "", "\f", "\r", "", " ", "", " ", " "}

RefLetter ==
    {"A", "B", "C", "D", "E", "F", "G", "H", "I", "J", "K", "L", "M", "N", "O",
     "P", "Q", "R", "S", "T", "U", "V", "W", "X", "Y", "Z", "a", "b", "c", "d",
     "e", "f", "g", "h", "i", "j", "k", "l", "m", "n", "o", "p", "q", "r", "s",
     "t", "u", "v", "w", "x", "y", "z", "ª", "µ", "é", "α", "א", "ん", "𰂀",
     "𰂁"}

RefDecimal == {"0", "1", "2", "3", "4", "5", "6", "7", "8", "9", "۱", "۵", "௧"}

RefOtherAlnum == {"²", "³", "¹", "¼", "½", "₂", "↉", "➀"}

RefAlnum == RefLetter \cup RefDecimal \cup RefOtherAlnum

\* The first character of the run of letters and digits that ends with the
\* k-th character of cs (k + 1 when that character is not one of them)
RunStart(cs, k) ==
    CHOOSE i \in 1 .. k + 1 :
        /\ \A j \in i .. k : cs[j] \in RefAlnum
        /\ i = 1 \/ cs[i - 1] \notin RefAlnum

\* The k-th character of cs neither extends the token before it nor starts
\* a token, when every character before it does: a character of no token;
\* a digit that is not decimal or a fraction outside an identifier; a point
\* that does not follow the whole part of a number; an exclamation mark
\* with no equals sign after it.
ExtendsNoToken(cs, k) ==
    IF cs[k] \in RefSpace \cup RefLetter \cup RefDecimal \cup OPS THEN FALSE
    ELSE IF cs[k] \in RefOtherAlnum
        THEN \A j \in RunStart(cs, k) .. k : cs[j] \notin RefLetter
    ELSE IF cs[k] = "."
        THEN LET i == RunStart(cs, k - 1)
             IN  \/ i = k
                 \/ \E j \in i .. k - 1 : cs[j] \notin RefDecimal
                 \/ i > 1 /\ cs[i - 1] = "."
    ELSE IF cs[k] = "!" THEN k = Len(cs) \/ cs[k + 1] # "="
    ELSE TRUE

\* The index of the first character of cs that could not extend a valid
\* token, 0 when there is none
FirstBad(cs) ==
    LET bad == {k \in 1 .. Len(cs) : ExtendsNoToken(cs, k)}
    IN  IF bad = {} THEN 0 ELSE CHOOSE k \in bad : \A j \in bad : k <= j

\* The lexer has raised an exception: next_token its SyntaxError, or
\* Lexer.__number the ValueError of int() or float()
LexerRaised == exc.kind # "" /\ exc.site \in {"next_token", "number"}

(* C6, as the specification states it: when the lexer raises on a text, the *)
(* exception is the lexical fault with a row and a column, and these are    *)
(* the 1-based position of the first character that could not extend a     *)
(* valid token: the row is 1 plus the newlines before it, the column 1 plus *)
(* the characters between the last of these newlines and it.                *)
C6_LexicalFaultPosition ==
    LexerRaised =>
        /\ exc.kind = "SyntaxError"
        /\ FirstBad(read(text)) # 0
        /\ exc.row = RowAfter(read(text), FirstBad(read(text)) - 1)
        /\ exc.col = ColAfter(read(text), FirstBad(read(text)) - 1)

\* What the lexer does: the SyntaxError of next_token has the row and the
\* column of the first character that could not extend a valid token, which
\* the lexer has come to (row is 1 plus the newlines consumed, col 1 plus
\* the characters consumed since the last newline); the ValueError of
\* Lexer.__number has no row and no column, and the character is a digit
\* that is not decimal.
LexerFaultPositions ==
    LexerRaised =>
        LET k == FirstBad(read(text))
        IN  /\ k # 0
            /\ exc.site = "next_token" =>
                   /\ exc.kind = "SyntaxError"
                   /\ Consumed = k - 1
                   /\ exc.row = RowAfter(read(text), k - 1)
                   /\ exc.col = ColAfter(read(text), k - 1)
            /\ exc.site = "number" =>
                   /\ exc.kind = "ValueError"
                   /\ read(text)[k] \in {"²", "³", "¹", "₂", "➀"}
                   /\ Consumed >= k
                   /\ exc.row = 0 /\ exc.col = 0

\* next_token has raised its error past the first row and the first column.
FaultBelowFirstRow ==
    LexicalFault /\ exc.row > 1 /\ exc.col > 1 /\ Consumed > 2

\* Lexer.__number has raised its ValueError on a digit that is not decimal.
NumberRaised == exc.site = "number" /\ mainpc = "crashed"

(* C7: once the lexer or the parser has raised an exception, evaluate is    *)
(* not started: main has ended, no instruction of the tape has run, the     *)
(* environment holds the built-ins alone and print was not called.          *)
C7_NoEvaluateAfterFault ==
    exc.kind # "" /\ exc.site # "evaluate" =>
        /\ mainpc \in {"crashed", "reported"}
        /\ stack = <<>> /\ pc = 0
        /\ env = BuiltinEnv
        /\ stdout = <<>>

\* The parser has raised after it appended the instructions of a call of
\* print and of an assignment.
C7_FaultAfterRunnablePrefix ==
    /\ mainpc = "reported"
    /\ \E i \in 1 .. Len(code) : IsOp(code[i], "CALL") \/ IsOp(code[i], "=")
    /\ \E i \in 1 .. Len(code) : IsOp(code[i], "DROP")

\* The instruction at pc loads a name that is not bound
UnboundLoad == Running /\ Cur.type = "ID" /\ Cur.s \notin DOMAIN env

(* C8: the load of a name that the environment does not bind ends the run   *)
(* with KeyError: nothing is pushed, pc stays, and no step follows.         *)
C8_UnboundLoadStops ==
    [][/\ mainpc # "crashed"
       /\ UnboundLoad =>
            /\ mainpc' = "crashed" /\ exc'.kind = "KeyError"
            /\ stack' = stack /\ pc' = pc /\ env' = env
            /\ stdout' = stdout]_vars

\* A name assigned only in a branch or a loop body that did not run was
\* loaded.
C8_UnboundAfterSkippedBranch ==
    /\ RuntimeFault /\ exc.kind = "KeyError"
    /\ Cur = ID("a")
    /\ \E i \in 1 .. pc : code[i] = LValue(StrV("a"))
    /\ \E i \in 1 .. pc : code[i].type = "OnFalseJump"

\* What an expression of Items does, by the meaning of the language: r holds
\* the environment, the printed output, the value of the expression before,
\* and ok, which is FALSE once an unbound name was loaded.
ItemRun(item, r) ==
    IF ~r.ok THEN r
    ELSE IF item = <<"a", "=", "1">>
        THEN [r EXCEPT !.env = ("a" :> IntV(1)) @@ @, !.val = IntV(1)]
    ELSE IF item = <<"a", "=", "2">>
        THEN [r EXCEPT !.env = ("a" :> IntV(2)) @@ @, !.val = IntV(2)]
    ELSE IF item = <<"3">> THEN [r EXCEPT !.val = IntV(3)]
    ELSE IF "a" \notin DOMAIN r.env THEN [r EXCEPT !.ok = FALSE]
    ELSE IF item = <<"b", "=", "a">>
        THEN [r EXCEPT !.env = ("b" :> r.env["a"]) @@ @, !.val = r.env["a"]]
    ELSE [r EXCEPT !.out = Append(@, <<r.env["a"]>>), !.val = NoneV]

\* The exprlists x; y; z of ExprlistPrograms, each with its text, the tapes
\* of x, y and z compiled alone, and what x, then y, then z do.
ExprlistCases ==
    {LET r0 == [ok |-> TRUE, out |-> <<>>, val |-> NoneV,
                env |-> [n \in ctx.bound |-> IntV(1)] @@ BuiltinEnv]
         r1 == ItemRun(x, r0)
         r2 == ItemRun(y, r1)
         r3 == ItemRun(z, r2)
         cx == Compile(SourceOf(x)).code
         cy == Compile(SourceOf(y)).code
         cz == Compile(SourceOf(z)).code
     IN  [text |-> SourceOf(InContext(ctx, x, y, z)),
          tape |-> cx \o <<Op("DROP")>> \o cy \o <<Op("DROP")>> \o cz,
          p0 |-> ctx.off,
          p1 |-> ctx.off + Len(cx),
          p2 |-> ctx.off + Len(cx) + 1 + Len(cy),
          p3 |-> ctx.off + Len(cx) + 1 + Len(cy) + 1 + Len(cz),
          r0 |-> r0, r1 |-> r1, r2 |-> r2, r3 |-> r3] :
        ctx \in Contexts, x \in Items, y \in Items, z \in Items}

\* evaluate is at instruction p with the effects of r and the stack st
At(p, r, st) ==
    mainpc = "run" /\ pc = p => r.ok /\ stack = st /\ env = r.env /\ stdout = r.out

(* C9: the tape of an exprlist x; y; z is the tape of x, DROP, the tape of  *)
(* y, DROP, the tape of z.  evaluate reaches the first DROP with the effects *)
(* and the value of x, the second with those of x then y, each DROP leaves  *)
(* the stack empty, and the end of the exprlist is reached with the effects *)
(* of x, y, z in that order and the value of z as the one value on the      *)
(* stack; a run fails only if an expression loads a name not yet bound.     *)
C9_ExprlistInOrder ==
    \A c \in ExprlistCases :
        text = c.text /\ mainpc \in {"evaluate", "run", "done", "crashed"} =>
            /\ Len(code) >= c.p3
            /\ SubSeq(code, c.p0 + 1, c.p3) = c.tape
            /\ At(c.p0, c.r0, <<>>)
            /\ At(c.p1, c.r1, <<c.r1.val>>)
            /\ At(c.p1 + 1, c.r1, <<>>)
            /\ At(c.p2, c.r2, <<c.r2.val>>)
            /\ At(c.p2 + 1, c.r2, <<>>)
            /\ At(c.p3, c.r3, <<c.r3.val>>)
            /\ mainpc = "done" =>
                   c.r3.ok /\ stack = <<c.r3.val>> /\ env = c.r3.env
                   /\ stdout = c.r3.out
            /\ mainpc = "crashed" => ~c.r3.ok /\ exc.kind = "KeyError"

\* The body of a while, a = 1; print(a); b = a, has run.
C9_WhileBodyDone ==
    /\ mainpc = "done"
    /\ \E i \in 1 .. Len(code) : code[i].type = "Jump" /\ code[i].target < i
    /\ \E c \in ExprlistCases : text = c.text
    /\ stdout = <<<<IntV(1)>>>>
    /\ "b" \in DOMAIN env
    /\ stack = <<IntV(1)>>

\* The integers v of the programs x = v; x + 1
AssignedValues == 0 .. MaxInt - 1

AssignThenAdd(v) == SourceOf(Seq2(<<"a", "=", ToString(v)>>, <<"a", "+", "1">>))

(* C10: the "=" instruction binds the name to the value in the environment  *)
(* and leaves the value on the stack in place of the name and the value; a  *)
(* load pushes the value the environment binds its name to; no other        *)
(* instruction changes the environment.  So `x = v; x + 1` yields v + 1.    *)
C10_AssignBindsAndYields ==
    /\ [][/\ Normal /\ IsOp(Cur, "=") =>
               /\ env' = (Second(stack).s :> Top(stack)) @@ env
               /\ stack' = Append(Popped(stack, 2), Top(stack))
          /\ Normal /\ Cur.type = "ID" =>
               /\ stack' = Append(stack, env[Cur.s])
               /\ env' = env
          /\ ~(Running /\ IsOp(Cur, "=")) => env' = env]_vars
    /\ [](\A v \in AssignedValues :
             text = AssignThenAdd(v) /\ mainpc = "done" =>
                 stack = <<IntV(v + 1)>> /\ env["a"] = IntV(v))

\* `a = 2; a + 1` has run to its end.
C10_AssignTwoDone ==
    text = AssignThenAdd(2) /\ mainpc = "done" /\ stack = <<IntV(3)>>

\* The tape of a program given by its lexemes
TapeOf(lexemes) == Compile(SourceOf(lexemes)).code

------------------------------------------------------------------------------
(* if: one branch runs. *)

\* The conditions of Conds that evaluate without a fault, by their truth
TruthyConds ==
    {<<"1">>, <<"0.5">>, <<"TRUE">>, <<"sin">>, <<"pi">>, <<"0", "==", "0.0">>}

FalsyConds ==
    {<<"0">>, <<"0.0">>, <<"FALSE">>, <<"NONE">>, <<"1", "<", "0">>,
     CallOf("sin", <<"0">>)}

NoBinding == [n \in {} |-> NoneV]

\* What a branch does when it runs alone: its value, the names it binds and
\* what it prints.  <<>> is the absent else part.
Effect(branch) ==
    CASE branch = <<"1">> ->
            [val |-> IntV(1), env |-> NoBinding, out |-> <<>>]
      [] branch = <<"2">> ->
            [val |-> IntV(2), env |-> NoBinding, out |-> <<>>]
      [] branch = <<"a", "=", "1">> ->
            [val |-> IntV(1), env |-> "a" :> IntV(1), out |-> <<>>]
      [] branch = <<"b", "=", "2">> ->
            [val |-> IntV(2), env |-> "b" :> IntV(2), out |-> <<>>]
      [] branch = CallOf("print", <<"1">>) ->
            [val |-> NoneV, env |-> NoBinding, out |-> <<<<IntV(1)>>>>]
      [] branch = CallOf("print", <<"2">>) ->
            [val |-> NoneV, env |-> NoBinding, out |-> <<<<IntV(2)>>>>]
      [] branch = <<>> ->
            [val |-> NoneV, env |-> NoBinding, out |-> <<>>]

\* `if c then A [else B] end` for each such c, A and B: the text, where the
\* tape holds OnFalseJump, A with its closing Jump, and B (the pushed Null
\* when there is no else), whether c is truthy, and what the taken branch does.
IfCases ==
    {LET nc == Len(Compile(SourceOf(c)).code)
         nA == Len(Compile(SourceOf(A)).code)
         nB == IF B = <<>> THEN 1 ELSE Len(Compile(SourceOf(B)).code)
     IN  [text |-> SourceOf(IF B = <<>> THEN IfThen(c, A) ELSE IfElse(c, A, B)),
          test |-> nc,
          thenLo |-> nc + 1,
          thenHi |-> nc + nA + 1,
          elseLo |-> nc + nA + 2,
          elseHi |-> nc + nA + 1 + nB,
          truthy |-> c \in TruthyConds,
          taken |-> Effect(IF c \in TruthyConds THEN A ELSE B)] :
        c \in TruthyConds \cup FalsyConds, A \in Branches,
        B \in ElseBranches \cup {<<>>}}

(* C11: in `if c then A [else B] end` evaluate runs one branch.  The tape  *)
(* is c, OnFalseJump to B, A, Jump to the end, B.  With c truthy the pc is  *)
(* never in B and the run ends with the value, the bindings and the output *)
(* of A alone; with c falsy the pc is never in A nor on its Jump and the   *)
(* run ends with those of B alone, and with Null, no binding and no output *)
(* when there is no else part.                                             *)
C11_OneBranchRuns ==
    \A k \in IfCases :
        text = k.text /\ mainpc \in {"evaluate", "run", "done"} =>
            /\ Len(code) = k.elseHi + 1
            /\ code[k.test + 1] = OnFalseJump(k.elseLo)
            /\ code[k.thenHi + 1] = Jump(k.elseHi + 1)
            /\ mainpc = "run" /\ k.truthy => pc \notin k.elseLo .. k.elseHi
            /\ mainpc = "run" /\ ~k.truthy => pc \notin k.thenLo .. k.thenHi
            /\ mainpc = "done" =>
                /\ stack = <<k.taken.val>>
                /\ env = k.taken.env @@ BuiltinEnv
                /\ stdout = k.taken.out

\* `if FALSE then 1 end` has ended with Null
C11_IfFalseNull ==
    /\ text = SourceOf(IfThen(<<"FALSE">>, <<"1">>))
    /\ mainpc = "done"
    /\ stack = <<NoneV>>

------------------------------------------------------------------------------
(* The counting loop. *)

CountBounds == 0 .. MaxInt

IsCount(N) == text = SourceOf(CountProgram(N))

\* The tape of CountProgram(N): i = 0 and its DROP at 0 .. 3, the pushed Null
\* at 4, the condition at 5 .. 7, OnFalseJump at 8, DROP at 9, the body at
\* 10 .. 14 with its assignment at 14, Jump at 15, and the rest of the
\* program, DROP and the load of i, at 16 .. 17.
CountHead == Len(TapeOf(<<"i", "=", "0">>)) + 2

CountTest == CountHead + Len(TapeOf(<<"i", "<", "0">>))

CountBody == CountTest + 2

CountAssign == CountBody + Len(TapeOf(<<"i", "=", "i", "+", "1">>)) - 1

CountJump == CountAssign + 1

CountExit == CountJump + 1

CountEnd == CountExit + 2

\* The value of i, -1 while i is not bound
CountI == IF "i" \in DOMAIN env /\ env["i"].t = "int" THEN env["i"].n ELSE -1

\* The places of a run of CountProgram(N): the loop is reached with i = 0,
\* the condition is evaluated with i in 0 .. N and yields i < N, the body is
\* entered with i in 0 .. N - 1 and the loop is left with i = N.
CountPlaces(N) ==
    /\ Len(code) = CountEnd
    /\ code[CountHead] = LValue(NoneV)
    /\ code[CountTest + 1] = OnFalseJump(CountExit)
    /\ code[CountBody] = Op("DROP")
    /\ code[CountJump + 1] = Jump(CountHead)
    /\ mainpc = "run" =>
        /\ pc = CountHead - 1 => CountI = 0
        /\ pc \in CountHead .. CountTest => CountI \in 0 .. N
        /\ pc = CountTest => Len(stack) = 2 /\ Top(stack) = BoolV(CountI < N)
        /\ pc \in CountTest + 1 .. CountAssign => CountI \in 0 .. N - 1
        /\ pc = CountJump => CountI \in 1 .. N
        /\ pc >= CountExit => CountI = N
    /\ mainpc = "done" => stack = <<IntV(N)>> /\ CountI = N

\* The steps of a run of CountProgram(N) that change i or close an iteration:
\* the body's assignment adds one to i, and the Jump that follows goes back
\* to the condition with i as the body left it.
CountSteps ==
    mainpc = "run" /\ (\E N \in CountBounds : IsCount(N)) =>
        /\ pc = CountAssign => pc' = CountJump /\ env'["i"] = IntV(CountI + 1)
        /\ pc = CountJump => pc' = CountHead /\ env' = env
        /\ pc \in CountHead .. CountAssign - 1 => env' = env
        /\ pc < CountExit => mainpc' = "run" /\ exc' = NoExc

CountDone(N) == IsCount(N) /\ mainpc = "done" /\ stack = <<IntV(N)>>

(* C12: `i = 0; while i < N do i = i + 1 end; i`, N in 0 .. MaxInt,        *)
(* compiles, and evaluate, once called, reaches the end of its tape with N *)
(* as the one value on the stack.  The condition is   *)
(* evaluated with i = 0 first; each pass through the body adds one to i    *)
(* and leads back to the condition; the body is entered only with i < N    *)
(* and the loop is left only with i = N: so the body runs once for each of *)
(* i = 0 .. N - 1, N times, and the condition is evaluated once for each   *)
(* of i = 0 .. N, N + 1 times.                                             *)
C12_CountingLoopHalts ==
    /\ [](\A N \in CountBounds : IsCount(N) =>
            /\ mainpc \notin {"reported", "crashed"}
            /\ mainpc \in {"evaluate", "run", "done"} => CountPlaces(N))
    /\ [][CountSteps]_vars
    /\ (\E N \in CountBounds : IsCount(N) /\ mainpc = "evaluate")
            ~> (\E N \in CountBounds : CountDone(N))

\* `i = 0; while i < 3 do i = i + 1 end; i` has ended with 3
C12_CountToThree == CountDone(3)

------------------------------------------------------------------------------
(* The tape holds only instructions evaluate knows. *)

\* The cases of evaluate's loop before its final else
Handled(cur) ==
    \/ cur.type \in {"RValue", "ID", "LValue", "OnFalseJump", "Jump"}
    \/ cur.type = "str" /\ cur.s \in BINARYOPS \cup {"NEG", "=", "DROP", "[]"}

\* The class of an instruction, or the string itself
KindOf(cur) == IF cur.type = "str" THEN cur.s ELSE cur.type

KindsOnTape == {KindOf(code[i]) : i \in 1 .. Len(code)}

(* C13: every element of the tape the parser has built, of a tape cut short *)
(* by a fault too, falls under one of the cases of evaluate's loop; the     *)
(* instruction evaluate is at never reaches the final else, and no run ends *)
(* with its Exception('Bad instruction').                                   *)
C13_NoBadInstruction ==
    /\ \A i \in 1 .. Len(code) : Handled(code[i])
    /\ Running => ExcOf(Cur, stack, env) # "Exception"
    /\ exc.kind # "Exception"

\* A run has ended on a tape with loads, stores, both jumps, a call and
\* operators
C13_ManyKindsDone ==
    /\ mainpc = "done"
    /\ {"RValue", "ID", "LValue", "OnFalseJump", "Jump", "DROP", "=", "[]",
        "APPEND", "CALL", "<", "+"} \subseteq KindsOnTape

------------------------------------------------------------------------------
(* What the DROP of a while loop discards. *)

\* Programs `x = first; while x < bound do body end ...` whose body ends with
\* the value of x: the loops of WhilePrograms on a and the counting loops.
\* Their tapes agree up to the DROP of the loop, at CountTest + 1.
LoopCases ==
    {[text |-> SourceOf(Seq2(<<"a", "=", ToString(v)>>,
                             While(<<"a", "<", "2">>, body))),
      name |-> "a", first |-> v] : v \in 0 .. 3, body \in Bodies}
    \cup {[text |-> SourceOf(CountProgram(N)), name |-> "i", first |-> 0] :
            N \in CountBounds}

\* evaluate is at the OnFalseJump of a while loop: the next instruction on
\* the tape is DROP
AtWhileTest ==
    /\ Running
    /\ Cur.type = "OnFalseJump"
    /\ pc + 2 <= Len(code)
    /\ IsOp(code[pc + 2], "DROP")

(* C14: the OnFalseJump of a while loop pops the value the condition has   *)
(* produced, and when it does not jump, the DROP after it finds on top of  *)
(* the stack the value that lay beneath.  In the loops of LoopCases that   *)
(* value is the Null pushed before the loop in the first iteration and the *)
(* value of the previous iteration's body in the later ones.               *)
C14_DropDiscardsLoopValue ==
    /\ [](\A k \in LoopCases :
            text = k.text /\ mainpc = "run" /\ pc = CountTest + 1 =>
                /\ Len(code) > CountTest + 1
                /\ code[CountTest + 1].type = "OnFalseJump"
                /\ IsOp(Cur, "DROP")
                /\ k.name \in DOMAIN env
                /\ stack = <<IF env[k.name] = IntV(k.first)
                             THEN NoneV ELSE env[k.name]>>)
    /\ [][AtWhileTest =>
            /\ Len(stack) >= 2
            /\ stack' = Popped(stack, 1)
            /\ pc' = pc + 1 => Top(stack') = Second(stack)]_vars

\* The DROP of `i = 0; while i < 3 do i = i + 1 end; i` is reached with the
\* value 1 of the first iteration's body as the one value on the stack
C14_DropOfBodyValue ==
    /\ IsCount(3)
    /\ mainpc = "run"
    /\ pc = CountTest + 1
    /\ stack = <<IntV(1)>>

\* The statement as first made: in the loops of LoopCases the DROP finds on
\* top of the stack the value the condition has produced, which is True.
C14_DropDiscardsCondition ==
    \A k \in LoopCases :
        text = k.text /\ mainpc = "run" /\ pc = CountTest + 1 =>
            Len(stack) >= 1 /\ Top(stack) = BoolV(TRUE)

------------------------------------------------------------------------------
(* Jump targets. *)

\* The parser has built the whole tape
Compiled == mainpc \in {"evaluate", "run", "done"} \/ RuntimeFault

IsJump(cur) == cur.type \in {"OnFalseJump", "Jump"}

\* The instruction at the 0-based index p of the tape
Instr(p) == code[p + 1]

\* The OnFalseJump at p goes to just after a Jump at q.  A Jump that goes
\* forward closes the then branch of an if and stays within the tape; one
\* that goes back closes a while: it goes to just after the push of Null
\* before the loop, which lies before the condition, and the OnFalseJump is
\* followed by DROP.
WellPatched(p) ==
    LET t == Instr(p).target
        q == t - 1
    IN  /\ p < q /\ q < Len(code)
        /\ Instr(q).type = "Jump"
        /\ LET u == Instr(q).target
           IN  IF u > q THEN u <= Len(code)
               ELSE /\ 1 <= u /\ u <= p
                    /\ Instr(u - 1) = LValue(NoneV)
                    /\ IsOp(Instr(p + 1), "DROP")

\* The tape with every jump target moved by off
Reloc(tape, off) ==
    [i \in 1 .. Len(tape) |->
        IF IsJump(tape[i]) THEN [tape[i] EXCEPT !.target = @ + off]
        ELSE tape[i]]

\* The tape of an if from the tapes of its parts: the OnFalseJump goes to
\* just after the Jump that closes the then branch, and that Jump to just
\* after the else branch.
IfTape(cc, cx, cy) ==
    LET toElse == Len(cc) + 1 + Len(cx) + 1
    IN  cc \o <<OnFalseJump(toElse)>> \o Reloc(cx, Len(cc) + 1)
           \o <<Jump(toElse + Len(cy))>> \o Reloc(cy, toElse)

\* The tape of a while from the tapes of its parts: the Jump goes to the
\* first instruction of the condition, the OnFalseJump to just after the Jump.
WhileTape(cc, cx) ==
    LET body == 1 + Len(cc) + 2
    IN  <<LValue(NoneV)>> \o Reloc(cc, 1)
           \o <<OnFalseJump(body + Len(cx) + 1), Op("DROP")>>
           \o Reloc(cx, body) \o <<Jump(1)>>

NestCases ==
    {[text |-> SourceOf(IfThen(c, x)),
      tape |-> IfTape(TapeOf(c), TapeOf(x), <<LValue(NoneV)>>)] :
        c \in NestConds, x \in Nest1}
    \cup {[text |-> SourceOf(IfElse(c, x, y)),
           tape |-> IfTape(TapeOf(c), TapeOf(x), TapeOf(y))] :
            c \in NestConds, x \in Nest1, y \in Nest1}
    \cup {[text |-> SourceOf(While(c, x)),
           tape |-> WhileTape(TapeOf(c), TapeOf(x))] :
            c \in NestConds, x \in Nest1}

(* C15: on the tape of a program that compiles, every jump target is in   *)
(* 0 .. len(code) and so is the pc throughout evaluate; every OnFalseJump  *)
(* goes to just after a Jump; every Jump is the one before the target of   *)
(* exactly one OnFalseJump, and is either the forward Jump of an if or the *)
(* backward Jump of a while to the loop's head.  For if and while nested   *)
(* two deep the tape is the one built from the tapes of the parts, moved   *)
(* to their places: the if's Jump goes to just after the whole if, the     *)
(* while's Jump to the first instruction of its condition.                 *)
C15_JumpTargets ==
    Compiled =>
        /\ pc \in 0 .. Len(code)
        /\ \A p \in 0 .. Len(code) - 1 :
            /\ IsJump(Instr(p)) => Instr(p).target \in 0 .. Len(code)
            /\ Instr(p).type = "OnFalseJump" => WellPatched(p)
            /\ Instr(p).type = "Jump" =>
                Cardinality({o \in 0 .. p - 1 :
                    Instr(o).type = "OnFalseJump" /\ Instr(o).target = p + 1}) = 1
        /\ \A k \in NestCases : text = k.text => code = k.tape

\* `while 1 do if 0 then 2 else 2 end end` has run its body and is at the
\* Jump back to the loop's head
C15_NestedLoopRuns ==
    /\ text = SourceOf(While(<<"1">>, IfElse(<<"0">>, <<"2">>, <<"2">>)))
    /\ mainpc = "run"
    /\ pc < Len(code)
    /\ Instr(pc) = Jump(1)
    /\ stack = <<IntV(2)>>

------------------------------------------------------------------------------
(* The value of a while. *)

\* The loops of LoopCases, each with the bound of its condition x < bound
\* and the index where its tape goes on after the loop
WhileCases ==
    {LET q == Seq2(<<"a", "=", ToString(v)>>, While(<<"a", "<", "2">>, body))
     IN  [text |-> SourceOf(q), name |-> "a", first |-> v, bound |-> 2,
          exit |-> Len(TapeOf(q))] : v \in 0 .. 3, body \in Bodies}
    \cup {[text |-> SourceOf(CountProgram(N)), name |-> "i", first |-> 0,
           bound |-> N, exit |-> CountExit] : N \in CountBounds}

\* The value of the loop of k: Null when first is not below the bound, and
\* the bound, the value of the body that made the condition false, otherwise
WhileValue(k) == IF k.first < k.bound THEN IntV(k.bound) ELSE NoneV

(* C16: in the loops of WhileCases the condition is reached, in every      *)
(* iteration, with one value on the stack: the Null pushed before the loop *)
(* the first time, the value of the previous iteration's body afterwards.  *)
(* The tape after the loop is reached with one value on the stack: Null    *)
(* when the condition was false at once, and else the value of the last    *)
(* evaluation of the body.                                                 *)
C16_WhileValue ==
    \A k \in WhileCases :
        text = k.text /\ mainpc \in {"run", "done"} =>
            /\ pc = CountHead =>
                /\ k.name \in DOMAIN env
                /\ stack = <<IF env[k.name] = IntV(k.first)
                             THEN NoneV ELSE env[k.name]>>
            /\ pc = k.exit => stack = <<WhileValue(k)>>

\* `a = 0; while a < 2 do a = a + 1 end` has ended with 2, the value of the
\* second evaluation of the body
C16_LastBodyValue ==
    /\ text = SourceOf(Seq2(<<"a", "=", "0">>, While(<<"a", "<", "2">>, Incr)))
    /\ mainpc = "done"
    /\ stack = <<IntV(2)>>

------------------------------------------------------------------------------
(* Arithmetic expressions. *)

\* The tape of a postfix form: a load for a literal, the string for an
\* operator
PostfixTape(p) ==
    [i \in 1 .. Len(p) |->
        IF p[i] \in ArithOps THEN Op(p[i]) ELSE RValue(IntV(DigitVal(p[i])))]

ArithCases ==
    {[text |-> SourceOf(Infix(p)), tape |-> PostfixTape(p),
      value |-> PostfixValue(p)] :
        p \in {q \in Postfixes : Abs(PostfixValue(q)) <= MaxInt}}

(* C17: an expression of integer literals, +, -, * and parentheses, where  *)
(* an operand is parenthesised only if its operator binds less tightly, or *)
(* equally and it stands on the right, compiles to its postfix form; no    *)
(* step of its run fails, and the run ends with the value of the postfix   *)
(* form, each operator applied with the value pushed first on its left.    *)
C17_PostfixAndValue ==
    \A k \in ArithCases :
        text = k.text =>
            /\ mainpc \notin {"reported", "crashed"}
            /\ Compiled => code = k.tape
            /\ mainpc = "done" => stack = <<IntV(k.value)>>

\* `7 - 2 - 1` has ended with 4
C17_SevenTwoOne ==
    /\ text = SourceOf(<<"7", "-", "2", "-", "1">>)
    /\ mainpc = "done"
    /\ stack = <<IntV(4)>>

------------------------------------------------------------------------------
(* The sign of an arithmetic expression. *)

\* The tapes of the further terms, each followed by its + or -
RECURSIVE RestTape(_)
RestTape(rest) ==
    IF rest = <<>> THEN <<>>
    ELSE TapeOf(rest[1].term.lex) \o <<Op(rest[1].op)>> \o RestTape(Tail(rest))

NegCount == Cardinality({i \in 1 .. Len(code) : IsOp(code[i], "NEG")})

SignRuns ==
    {LET v == SignedValue(c.sign, c.t, c.rest)
         float == c.t.float \/ \E i \in 1 .. Len(c.rest) : c.rest[i].term.float
     IN  [text |-> SourceOf(SignedExpr(c.sign, c.t, c.rest)),
          tape |-> TapeOf(c.t.lex)
                     \o (IF c.sign = "-" THEN <<Op("NEG")>> ELSE <<>>)
                     \o RestTape(c.rest),
          negs |-> IF c.sign = "-" THEN 1 ELSE 0,
          value |-> IF float THEN FloatV(v, 1) ELSE IntV(v)] :
        c \in SignCases}

(* C18: the tape of [sign] term {(+|-) term} is the tape of the first     *)
(* term, then NEG if the sign is '-', then the tape of each further term  *)
(* followed by its operator; it holds one NEG when the sign is '-' and    *)
(* none otherwise, and the run ends with the value in which the sign      *)
(* applies to the first term alone.                                       *)
C18_SignOnFirstTerm ==
    \A k \in SignRuns :
        text = k.text =>
            /\ mainpc \notin {"reported", "crashed"}
            /\ Compiled => code = k.tape /\ NegCount = k.negs
            /\ mainpc = "done" => stack = <<k.value>>

\* `- 2 * 3` has ended with -6
C18_MinusTwoTimesThree ==
    /\ text = SourceOf(<<"-", "2", "*", "3">>)
    /\ mainpc = "done"
    /\ stack = <<IntV(-6)>>

------------------------------------------------------------------------------
(* Argument lists. *)

\* The tape of one argument list: '[]', each argument followed by 'APPEND',
\* 'CALL'
RECURSIVE ArgsTape(_)
ArgsTape(args) ==
    IF args = <<>> THEN <<>>
    ELSE TapeOf(args[1]) \o <<Op("APPEND")>> \o ArgsTape(Tail(args))

ListTape(args) == <<Op("[]")>> \o ArgsTape(args) \o <<Op("CALL")>>

\* What evaluating the arguments in their order does, from r: r.vals their
\* values, r.bound whether a is bound, r.ok whether no a was loaded unbound
RECURSIVE ArgRun(_, _)
ArgRun(args, r) ==
    IF args = <<>> \/ ~r.ok THEN r
    ELSE LET x == args[1]
             next ==
                 IF x = <<"0">> THEN [r EXCEPT !.vals = Append(@, IntV(0))]
                 ELSE IF x = <<"a", "=", "1">>
                     THEN [r EXCEPT !.vals = Append(@, IntV(1)), !.bound = TRUE]
                 ELSE IF r.bound THEN [r EXCEPT !.vals = Append(@, IntV(1))]
                 ELSE [r EXCEPT !.ok = FALSE]
         IN  ArgRun(Tail(args), next)

\* The calls of CallCases.  call1 and call2 are the indices of the CALL of
\* the first and of the second argument list (0 when there is none), r1 and
\* r2 what the arguments of each list do, and result what the first call
\* returns.
CallRuns ==
    {LET first == c.lists[1]
         second == IF Len(c.lists) = 2 THEN c.lists[2] ELSE <<>>
         t1 == <<ID(c.f)>> \o ListTape(first)
         r1 == ArgRun(first, [ok |-> TRUE, bound |-> FALSE, vals |-> <<>>])
         r2 == ArgRun(second, [r1 EXCEPT !.vals = <<>>])
     IN  [text |-> SourceOf(<<c.f>> \o ArgLists(c.lists)),
          f |-> c.f,
          tape |-> IF Len(c.lists) = 2 THEN t1 \o ListTape(second) ELSE t1,
          call1 |-> Len(t1) - 1,
          call2 |-> IF Len(c.lists) = 2 THEN Len(t1) + Len(ListTape(second)) - 1
                    ELSE 0,
          r1 |-> r1,
          r2 |-> r2,
          result |-> IF c.f = "print" THEN NoneV ELSE FloatV(0, 1),
          fails |-> c.f = "sin" /\ Len(first) # 1] : c \in CallCases}

\* The steps of the instructions of an argument list: '[]' pushes an empty
\* list, APPEND replaces a list and a value by a new list with the value
\* added at its end, and CALL finds a list on top of the stack.
ArgSteps ==
    /\ Normal /\ IsOp(Cur, "[]") => stack' = Append(stack, ListV(<<>>))
    /\ Normal /\ IsOp(Cur, "APPEND") =>
        /\ Second(stack).t = "list"
        /\ stack' = Append(Popped(stack, 2),
                           ListV(Append(Second(stack).l, Top(stack))))
    /\ Running /\ IsOp(Cur, "CALL") => Len(stack) >= 2 /\ Top(stack).t = "list"

(* C19: the tape of a callee with its argument lists is the callee, then *)
(* for each list '[]', each argument followed by 'APPEND', and 'CALL'.   *)
(* The first CALL is reached, unless an argument loads an unbound name,  *)
(* with the callee's value and the list of the arguments' values in      *)
(* their order on the stack; the second CALL with the first call's       *)
(* result and the list of the second list's values.  print then writes   *)
(* the values of its arguments in their order.                           *)
C19_ArgumentLists ==
    /\ [](\A k \in CallRuns :
            text = k.text =>
                /\ mainpc \notin {"reported"}
                /\ Compiled => code = k.tape
                /\ RuntimeFault /\ exc.kind = "KeyError" => ~k.r2.ok
                /\ RuntimeFault /\ exc.kind = "TypeError" =>
                        k.fails \/ (k.call2 > 0 /\ pc = k.call2)
                /\ mainpc = "run" /\ pc = k.call1 =>
                    /\ k.r1.ok
                    /\ stack = <<FuncV(k.f), ListV(k.r1.vals)>>
                /\ mainpc = "run" /\ k.call2 > 0 /\ pc = k.call2 =>
                    /\ k.r2.ok
                    /\ stack = <<k.result, ListV(k.r2.vals)>>
                /\ mainpc = "done" =>
                    /\ stack = <<k.result>>
                    /\ k.f = "print" => stdout = <<k.r1.vals>>)
    /\ [][ArgSteps]_vars

\* `print ( a = 1 , a , 0 )` has ended, 1, 1 and 0 written
C19_PrintThree ==
    /\ text = SourceOf(<<"print", "(", "a", "=", "1", ",", "a", ",", "0", ")">>)
    /\ mainpc = "done"
    /\ stdout = <<<<IntV(1), IntV(1), IntV(0)>>>>

------------------------------------------------------------------------------
(* Lexical faults and main. *)

(* C20, as the specification states it: every SyntaxError of next_token, *)
(* the one raised while the Lexer is constructed too, is caught by main, *)
(* which writes its message as one line.                                 *)
C20_LexicalFaultsReported ==
    LexicalFault => mainpc = "reported" /\ stderr = <<exc.message>>

=============================================================================
